---- MODULE Spec2Model ----
(***************************************************************************)
(* A model of util/tthoma.py: the Dispatcher (pattern table, interest      *)
(* registration, the line loop of parse) and the analyzers it feeds        *)
(* (AnalyzeRpc's RPC table, AnalyzeCopy's per-trace statistics).           *)
(*                                                                         *)
(* Python dictionaries are functions whose DOMAIN is the set of keys that  *)
(* are present; lists and tuples are sequences; times (floats in the       *)
(* program) are small integers.  An exception that reaches the top level   *)
(* ends the run: pc = "abort" and error names the exception.               *)
(***************************************************************************)
EXTENDS Integers, Sequences, FiniteSets, TLC

\* ------------------------------------------------------------------ bounds

\* Largest number of lines read in one run, over all its trace files, in
\* each of the specifications.
MaxLines == 2
MaxRpcLines == 2
MaxXmitLines == 4
\* Largest number of trace files on the command line.
MaxFiles == 2
\* Largest number of analyzer names on the command line.
MaxAnalyzers == 2

\* ------------------------------------------------------- dictionary helpers

Has(dct, k) == k \in DOMAIN dct
Put(dct, k, v) == (k :> v) @@ dct
Del(dct, k) == [x \in (DOMAIN dct) \ {k} |-> dct[x]]
EmptyDict == << >>

\* --------------------------------------------------------- the pattern table

\* Dispatcher.patterns: the names of the patterns, in the order of the
\* patterns.append calls.
patterns ==
    << "gro_data", "gro_grant", "softirq_data", "softirq_grant", "ip_xmit",
       "send_data", "send_grant", "sendmsg_request", "sendmsg_response",
       "recvmsg_done", "copy_in_start", "copy_in_done", "copy_out_start",
       "copy_out_done", "free_skbs", "resend", "retransmit" >>

PatternNames == { patterns[i] : i \in 1..Len(patterns) }

\* A message text that matches no pattern of the table.
NoShape == "other"

\* re.match(pattern['regexp'], msg).  Every regexp of the table starts with
\* a literal that is no prefix of another regexp's literal and re.match
\* anchors at the start of msg, so a message text matches at most one
\* pattern: line.shape names it (NoShape when there is none).
Matches(pattern, line) == line.shape = pattern

\* The patterns whose regexp groups admit text that int() rejects
\* ('[0-9.]+' accepts "1.5", '[-0-9.]+' accepts "-" and "1.5").
LooseShapes == { "gro_data", "softirq_data", "copy_in_done", "copy_out_done" }

\* ------------------------------------------------------ the analyzer classes

\* A class that is no part of tthoma.py: an analyzer with a handler
\* (tt_nosuch) for which the table has no pattern.  It lets interest()
\* reach its raise statement.
OtherClass == "AnalyzeOther"

Classes ==
    { "AnalyzeActivity", "AnalyzeCopy", "AnalyzeNet", "AnalyzeRpc",
      "AnalyzeTimeline", OtherClass }

\* The names xxx of the tt_xxx methods of a class, in the order of dir(obj)
\* (alphabetical).
RpcMethods ==
    << "copy_in_done", "copy_out_done", "copy_out_start", "gro_data",
       "gro_grant", "ip_xmit", "recvmsg_done", "resend", "retransmit",
       "send_data", "send_grant", "sendmsg_request", "sendmsg_response",
       "softirq_data", "softirq_grant" >>

CopyMethods ==
    << "copy_in_done", "copy_in_start", "copy_out_done", "copy_out_start",
       "free_skbs" >>

Methods(class) ==
    CASE class = "AnalyzeRpc"  -> RpcMethods
      [] class = "AnalyzeCopy" -> CopyMethods
      [] class = OtherClass    -> << "gro_data", "nosuch" >>
      [] OTHER                 -> << >>

\* The classes whose constructor calls dispatcher.interest('AnalyzeRpc').
NeedsRpc == { "AnalyzeActivity", "AnalyzeNet", "AnalyzeTimeline" }

\* ------------------------------------------------------ Dispatcher.interest

\* Dispatcher.__init__.  active is a list or None: activeNone tells which.
NewDispatcher ==
    [ objs       |-> << >>,
      analyzers  |-> {},
      interests  |-> EmptyDict,
      active     |-> << >>,
      activeNone |-> FALSE,
      error      |-> "" ]

\* Subscribe without the final test: a name with no pattern is passed over.
RECURSIVE SubscribeLenient(_, _, _)
SubscribeLenient(d, class, i) ==
    IF i > Len(Methods(class)) THEN d
    ELSE LET name == Methods(class)[i] IN
         IF name \in PatternNames
         THEN LET fresh == ~Has(d.interests, name)
                  old   == IF fresh THEN << >> ELSE d.interests[name]
                  d1    == [d EXCEPT
                              !.interests = Put(d.interests, name,
                                                Append(old, class)),
                              !.activeNone = IF fresh THEN TRUE ELSE @,
                              !.active = IF fresh THEN << >> ELSE @]
              IN SubscribeLenient(d1, class, i + 1)
         ELSE SubscribeLenient(d, class, i + 1)

\* The loop "for name in dir(obj)" of interest, from method number i on.
\* For a name of the table the object is appended to interests[name]
\* (a new key sets active to None); for any other name the key is missing
\* after the inner loop and the exception is raised.
RECURSIVE Subscribe(_, _, _)
Subscribe(d, class, i) ==
    IF i > Len(Methods(class)) THEN d
    ELSE LET name == Methods(class)[i] IN
         IF name \in PatternNames
         THEN LET fresh == ~Has(d.interests, name)
                  old   == IF fresh THEN << >> ELSE d.interests[name]
                  d1    == [d EXCEPT
                              !.interests = Put(d.interests, name,
                                                Append(old, class)),
                              !.activeNone = IF fresh THEN TRUE ELSE @,
                              !.active = IF fresh THEN << >> ELSE @]
              IN Subscribe(d1, class, i + 1)
         ELSE IF Has(d.interests, name)
              THEN Subscribe(d, class, i + 1)
              ELSE [d EXCEPT !.error = "Exception"]

\* interest(analyzer) for a class whose constructor registers nothing.
InterestPlain(d, class) ==
    IF class \in d.analyzers THEN d
    ELSE Subscribe([d EXCEPT !.analyzers = @ \cup {class},
                             !.objs = Append(@, class)],
                   class, 1)

\* interest without the test "if analyzer in self.analyzers: return".
InterestAgain(d, class) ==
    LET d0 == IF class \in NeedsRpc
              THEN InterestPlain(d, "AnalyzeRpc") ELSE d
    IN IF d0.error # "" THEN d0
       ELSE Subscribe([d0 EXCEPT !.analyzers = @ \cup {class},
                                 !.objs = Append(@, class)],
                      class, 1)

\* Dispatcher.interest.  The constructor runs before the object is entered
\* in analyzers and objs, so the AnalyzeRpc a constructor asks for is
\* registered first.
Interest(d, class) ==
    IF class \in d.analyzers THEN d
    ELSE LET d0 == IF class \in NeedsRpc
                   THEN InterestPlain(d, "AnalyzeRpc") ELSE d
         IN IF d0.error # "" THEN d0 ELSE InterestPlain(d0, class)

\* __build_active taking every pattern of the table, with or without a
\* key in interests.
BuildActiveAll(d) ==
    IF ~d.activeNone /\ d.active # << >> THEN d
    ELSE [d EXCEPT !.activeNone = FALSE, !.active = patterns]

\* Dispatcher.__build_active: "if self.active: return" keeps a non-empty
\* list; otherwise the list is the patterns with a key in interests, in
\* table order.
BuildActive(d) ==
    IF ~d.activeNone /\ d.active # << >> THEN d
    ELSE [d EXCEPT
            !.activeNone = FALSE,
            !.active = SelectSeq(patterns, LAMBDA p : Has(d.interests, p))]

\* ------------------------------------------------------------- AnalyzeRpc

\* AnalyzeRpc.new_rpc: rpcs[id] becomes a bare record owned by trace `name`.
new_rpc(rpcs, id, name) ==
    Put(rpcs, id,
        [ name          |-> name,
          gro_data      |-> << >>,
          gro_grant     |-> << >>,
          softirq_data  |-> << >>,
          softirq_grant |-> << >>,
          send_data     |-> << >>,
          send_grant    |-> << >>,
          ip_xmits      |-> EmptyDict,
          resends       |-> EmptyDict,
          retransmits   |-> EmptyDict ])

\* ensure_rpc without the guard: the record is initialized again.
ensure_rpc_unguarded(rpcs, trace, id) == new_rpc(rpcs, id, trace["name"])

\* The guard "if not id in rpcs: self.new_rpc(id, trace['name'])".
ensure_rpc(rpcs, trace, id) ==
    IF Has(rpcs, id) THEN rpcs ELSE new_rpc(rpcs, id, trace["name"])

\* rpcs[id][field] = value
set_field(rpcs, id, field, value) ==
    Put(rpcs, id, Put(rpcs[id], field, value))

\* append putting the value in front of the list.
append_in_front(rpcs, trace, id, name, value) ==
    LET r1  == ensure_rpc(rpcs, trace, id)
        rpc == IF Has(r1[id], name) THEN r1[id] ELSE Put(r1[id], name, << >>)
    IN Put(r1, id, Put(rpc, name, << value >> \o rpc[name]))

\* AnalyzeRpc.append
append(rpcs, trace, id, name, value) ==
    LET r1  == ensure_rpc(rpcs, trace, id)
        rpc == IF Has(r1[id], name) THEN r1[id] ELSE Put(r1[id], name, << >>)
    IN Put(r1, id, Put(rpc, name, Append(rpc[name], value)))

\* tt_gro_data without "rpcs[id]['gro_core'] = core".
tt_gro_data_no_core(rpcs, trace, time, core, peer, id, offset) ==
    LET r1 == append(rpcs, trace, id, "gro_data", << time, offset >>)
    IN set_field(r1, id, "peer", peer)

tt_gro_data(rpcs, trace, time, core, peer, id, offset) ==
    LET r1 == append(rpcs, trace, id, "gro_data", << time, offset >>)
        r2 == set_field(r1, id, "peer", peer)
    IN set_field(r2, id, "gro_core", core)

tt_gro_grant(rpcs, trace, time, core, peer, id, offset, priority) ==
    LET r1 == append(rpcs, trace, id, "gro_grant", << time, offset >>)
    IN set_field(r1, id, "gro_core", core)

tt_ip_xmit(rpcs, trace, time, core, id, offset) ==
    LET r1 == ensure_rpc(rpcs, trace, id)
    IN set_field(r1, id, "ip_xmits", Put(r1[id]["ip_xmits"], offset, time))

tt_resend(rpcs, trace, time, core, id, offset) ==
    LET r1 == ensure_rpc(rpcs, trace, id)
    IN set_field(r1, id, "resends", Put(r1[id]["resends"], offset, time))

tt_retransmit(rpcs, trace, time, core, id, offset, length) ==
    LET r1 == ensure_rpc(rpcs, trace, id)
    IN set_field(r1, id, "retransmits",
                 Put(r1[id]["retransmits"], offset, << time, length >>))

tt_softirq_data(rpcs, trace, time, core, id, offset, length) ==
    LET r1 == append(rpcs, trace, id, "softirq_data", << time, offset >>)
    IN set_field(r1, id, "in_length", length)

\* "xmit_id ^ 1": the id of the same RPC on the other machine.
Counterpart(id) == IF id % 2 = 0 THEN id + 1 ELSE id - 1

\* tt_softirq_grant filing the grant under the counterpart's id.
tt_softirq_grant_counterpart(rpcs, trace, time, core, id, offset) ==
    append(rpcs, trace, Counterpart(id), "softirq_grant", << time, offset >>)

tt_softirq_grant(rpcs, trace, time, core, id, offset) ==
    append(rpcs, trace, id, "softirq_grant", << time, offset >>)

\* tt_send_data recording the time of the send_data event itself.
tt_send_data_own_time(rpcs, trace, time, core, id, offset, length) ==
    IF ~Has(rpcs, id) \/ ~Has(rpcs[id]["ip_xmits"], offset) THEN rpcs
    ELSE LET r1 == append(rpcs, trace, id, "send_data",
                          << time, offset, length >>)
         IN set_field(r1, id, "ip_xmits", Del(r1[id]["ip_xmits"], offset))

\* tt_send_data recording a packet also when no ip_xmit entry is pending,
\* with the time of the send_data event.
tt_send_data_unmatched(rpcs, trace, time, core, id, offset, length) ==
    IF ~Has(rpcs, id) \/ ~Has(rpcs[id]["ip_xmits"], offset)
    THEN append(rpcs, trace, id, "send_data", << time, offset, length >>)
    ELSE LET ip_xmits == rpcs[id]["ip_xmits"]
             r1 == append(rpcs, trace, id, "send_data",
                          << ip_xmits[offset], offset, length >>)
         IN set_field(r1, id, "ip_xmits", Del(r1[id]["ip_xmits"], offset))

\* The record gets the time of the pending ip_xmit call, which is then
\* deleted; without a record or a pending entry the event is dropped.
tt_send_data(rpcs, trace, time, core, id, offset, length) ==
    IF ~Has(rpcs, id) \/ ~Has(rpcs[id]["ip_xmits"], offset) THEN rpcs
    ELSE LET ip_xmits == rpcs[id]["ip_xmits"]
             r1 == append(rpcs, trace, id, "send_data",
                          << ip_xmits[offset], offset, length >>)
         IN set_field(r1, id, "ip_xmits", Del(r1[id]["ip_xmits"], offset))

tt_send_grant(rpcs, trace, time, core, id, offset, priority) ==
    append(rpcs, trace, id, "send_grant", << time, offset, priority >>)

tt_sendmsg_request(rpcs, trace, time, core, peer, id, length) ==
    LET r1 == ensure_rpc(rpcs, trace, id)
        r2 == set_field(r1, id, "out_length", length)
        r3 == set_field(r2, id, "peer", peer)
    IN set_field(r3, id, "sendmsg", time)

tt_sendmsg_response(rpcs, trace, time, core, id, length) ==
    LET r1 == ensure_rpc(rpcs, trace, id)
        r2 == set_field(r1, id, "sendmsg", time)
    IN set_field(r2, id, "out_length", length)

\* tt_recvmsg_done passing over an RPC it has no record of.
tt_recvmsg_done_known_only(rpcs, trace, time, core, id, length) ==
    IF ~Has(rpcs, id) THEN rpcs
    ELSE set_field(rpcs, id, "recvmsg_done", time)

tt_recvmsg_done(rpcs, trace, time, core, id, length) ==
    LET r1 == ensure_rpc(rpcs, trace, id)
    IN set_field(r1, id, "recvmsg_done", time)

rpc_copy_out_start(rpcs, trace, time, core, id) ==
    LET r1 == ensure_rpc(rpcs, trace, id)
    IN IF Has(r1[id], "copy_out_start") THEN r1
       ELSE set_field(r1, id, "copy_out_start", time)

rpc_copy_out_done(rpcs, trace, time, core, id, num_bytes) ==
    LET r1 == ensure_rpc(rpcs, trace, id)
    IN set_field(r1, id, "copy_out_done", time)

rpc_copy_in_done(rpcs, trace, time, core, id, num_bytes) ==
    LET r1 == ensure_rpc(rpcs, trace, id)
    IN set_field(r1, id, "copy_in_done", time)

\* The tt_<shape> method of AnalyzeRpc, applied to the fields the parser of
\* the shape extracted (ev.len is the third number of the line: a length, a
\* priority or a byte count).
RpcHandler(shape, rpcs, trace, ev) ==
    CASE shape = "gro_data" ->
           tt_gro_data(rpcs, trace, ev.time, ev.core, ev.peer, ev.id, ev.offset)
      [] shape = "gro_grant" ->
           tt_gro_grant(rpcs, trace, ev.time, ev.core, ev.peer, ev.id,
                        ev.offset, ev.len)
      [] shape = "softirq_data" ->
           tt_softirq_data(rpcs, trace, ev.time, ev.core, ev.id, ev.offset,
                           ev.len)
      [] shape = "softirq_grant" ->
           tt_softirq_grant(rpcs, trace, ev.time, ev.core, ev.id, ev.offset)
      [] shape = "ip_xmit" ->
           tt_ip_xmit(rpcs, trace, ev.time, ev.core, ev.id, ev.offset)
      [] shape = "send_data" ->
           tt_send_data(rpcs, trace, ev.time, ev.core, ev.id, ev.offset, ev.len)
      [] shape = "send_grant" ->
           tt_send_grant(rpcs, trace, ev.time, ev.core, ev.id, ev.offset,
                         ev.len)
      [] shape = "sendmsg_request" ->
           tt_sendmsg_request(rpcs, trace, ev.time, ev.core, ev.peer, ev.id,
                              ev.len)
      [] shape = "sendmsg_response" ->
           tt_sendmsg_response(rpcs, trace, ev.time, ev.core, ev.id, ev.len)
      [] shape = "recvmsg_done" ->
           tt_recvmsg_done(rpcs, trace, ev.time, ev.core, ev.id, ev.len)
      [] shape = "copy_out_start" ->
           rpc_copy_out_start(rpcs, trace, ev.time, ev.core, ev.id)
      [] shape = "copy_out_done" ->
           rpc_copy_out_done(rpcs, trace, ev.time, ev.core, ev.id, ev.len)
      [] shape = "copy_in_done" ->
           rpc_copy_in_done(rpcs, trace, ev.time, ev.core, ev.id, ev.len)
      [] shape = "resend" ->
           tt_resend(rpcs, trace, ev.time, ev.core, ev.id, ev.offset)
      [] shape = "retransmit" ->
           tt_retransmit(rpcs, trace, ev.time, ev.core, ev.id, ev.offset,
                         ev.len)

\* ------------------------------------------------------------- AnalyzeCopy

\* AnalyzeCopy.init_trace: the value of trace['copy'].
init_copy ==
    [ in_start                 |-> EmptyDict,
      large_in_data            |-> 0,
      large_in_time            |-> 0,
      large_in_count           |-> 0,
      small_in_times           |-> << >>,
      total_in_time            |-> 0,
      out_start                |-> EmptyDict,
      out_end                  |-> EmptyDict,
      out_size                 |-> EmptyDict,
      large_out_data           |-> 0,
      large_out_time           |-> 0,
      large_out_time_with_skbs |-> 0,
      large_out_count          |-> 0,
      small_out_times          |-> << >>,
      total_out_time           |-> 0,
      skbs_freed               |-> 0,
      skb_free_time            |-> 0 ]

\* The size limits of tt_copy_in_done and tt_copy_out_done.
SmallBytes == 1000
LargeBytes == 5000

copy_in_start(stats, time, core) ==
    [stats EXCEPT !.in_start = Put(@, core, time)]

\* copy_in_done counting every copy above the small limit as a large one.
copy_in_done_no_gap(stats, time, core, id, num_bytes) ==
    IF ~Has(stats.in_start, core) THEN stats
    ELSE LET delta == time - stats.in_start[core]
             s1 == [stats EXCEPT !.total_in_time = @ + delta]
         IN IF num_bytes <= SmallBytes
            THEN [s1 EXCEPT !.small_in_times = Append(@, delta)]
            ELSE [s1 EXCEPT !.large_in_data = @ + num_bytes,
                            !.large_in_time = @ + delta,
                            !.large_in_count = @ + 1]

copy_in_done(stats, time, core, id, num_bytes) ==
    IF ~Has(stats.in_start, core) THEN stats
    ELSE LET delta == time - stats.in_start[core]
             s1 == [stats EXCEPT !.total_in_time = @ + delta]
         IN IF num_bytes <= SmallBytes
            THEN [s1 EXCEPT !.small_in_times = Append(@, delta)]
            ELSE IF num_bytes >= LargeBytes
            THEN [s1 EXCEPT !.large_in_data = @ + num_bytes,
                            !.large_in_time = @ + delta,
                            !.large_in_count = @ + 1]
            ELSE s1

copy_out_start(stats, time, core, id) ==
    [stats EXCEPT !.out_start = Put(@, core, time)]

copy_out_done(stats, time, core, id, num_bytes) ==
    IF ~Has(stats.out_start, core) THEN stats
    ELSE LET delta == time - stats.out_start[core]
             s1 == [stats EXCEPT !.out_end = Put(@, core, time),
                                 !.out_size = Put(@, core, num_bytes),
                                 !.total_out_time = @ + delta]
         IN IF num_bytes <= SmallBytes
            THEN [s1 EXCEPT !.small_out_times = Append(@, delta)]
            ELSE IF num_bytes >= LargeBytes
            THEN [s1 EXCEPT !.large_out_data = @ + num_bytes,
                            !.large_out_time = @ + delta,
                            !.large_out_time_with_skbs = @ + delta,
                            !.large_out_count = @ + 1]
            ELSE s1

\* free_skbs adding to the large-copy time whatever the size of the copy.
free_skbs_any_size(stats, time, core, num_skbs) ==
    IF ~Has(stats.out_end, core) THEN stats
    ELSE LET delta == time - stats.out_end[core]
         IN [stats EXCEPT !.skbs_freed = @ + num_skbs,
                          !.skb_free_time = @ + delta,
                          !.large_out_time_with_skbs = @ + delta]

free_skbs(stats, time, core, num_skbs) ==
    IF ~Has(stats.out_end, core) THEN stats
    ELSE LET delta == time - stats.out_end[core]
             s1 == [stats EXCEPT !.skbs_freed = @ + num_skbs,
                                 !.skb_free_time = @ + delta]
         IN IF stats.out_size[core] >= LargeBytes
            THEN [s1 EXCEPT !.large_out_time_with_skbs = @ + delta]
            ELSE s1

\* The tt_<shape> method of AnalyzeCopy: the new value of trace['copy'].
CopyHandler(shape, stats, ev) ==
    CASE shape = "copy_in_start" -> copy_in_start(stats, ev.time, ev.core)
      [] shape = "copy_in_done" ->
           copy_in_done(stats, ev.time, ev.core, ev.id, ev.len)
      [] shape = "copy_out_start" ->
           copy_out_start(stats, ev.time, ev.core, ev.id)
      [] shape = "copy_out_done" ->
           copy_out_done(stats, ev.time, ev.core, ev.id, ev.len)
      [] shape = "free_skbs" -> free_skbs(stats, ev.time, ev.core, ev.len)

\* With options.verbose, tt_copy_in_done and tt_copy_out_done end with a
\* print of 8e-03*num_bytes/delta: a float division, which raises
\* ZeroDivisionError when delta is 0.0 (the statistics are already updated).
CopyRaises(shape, stats, ev, opts) ==
    /\ opts.verbose
    /\ \/ /\ shape = "copy_in_done"
          /\ Has(stats.in_start, ev.core)
          /\ ev.time - stats.in_start[ev.core] = 0
       \/ /\ shape = "copy_out_done"
          /\ Has(stats.out_start, ev.core)
          /\ ev.time - stats.out_start[ev.core] = 0

\* ------------------------------------------------------------ trace lines

\* A line of a trace file, by what the regular expressions make of it:
\*   env    "ok" when the envelope expression of parse matches, else "none"
\*   tconv  whether float() accepts the text of the time group ('[-0-9.]+'
\*          also matches "1.2.3" and "-")
\*   time, core   the numbers of the envelope
\*   shape  the pattern whose regexp matches the message (NoShape: none)
\*   conv   whether int() accepts the text of the groups of the message
\*   peer, id, offset, len   the fields of the message (len is its third
\*          number: a length, a priority, a byte count or an skb count)
MkLine(env, tconv, time, core, shape, conv, peer, id, offset, len) ==
    [ env |-> env, tconv |-> tconv, time |-> time, core |-> core,
      shape |-> shape, conv |-> conv, peer |-> peer, id |-> id,
      offset |-> offset, len |-> len ]

NoPeer == "-"
UsesPeer == { "gro_data", "gro_grant", "sendmsg_request" }
UsesId == PatternNames \ { "copy_in_start", "free_skbs" }
UsesOffset ==
    { "gro_data", "gro_grant", "softirq_data", "softirq_grant", "ip_xmit",
      "send_data", "send_grant", "resend", "retransmit" }
UsesLen ==
    { "gro_grant", "softirq_data", "send_data", "send_grant",
      "sendmsg_request", "sendmsg_response", "recvmsg_done", "copy_in_done",
      "copy_out_done", "free_skbs", "retransmit" }

\* A line that the envelope expression does not match.
NoiseLine == MkLine("none", TRUE, 0, 0, NoShape, TRUE, NoPeer, 0, 0, 0)

\* A line whose envelope matches and whose time text is no number.
BadTimeLine == MkLine("ok", FALSE, 0, 0, NoShape, TRUE, NoPeer, 0, 0, 0)

\* The well-formed lines of the given shapes over the given field values; a
\* field that a shape does not carry has one value only.
ShapeLines(shapes, times, cores, peers, ids, offsets, lens) ==
    UNION { { MkLine("ok", TRUE, t, c, sh, TRUE, p, i, o, l) :
                t \in times, c \in cores,
                p \in (IF sh \in UsesPeer THEN peers ELSE {NoPeer}),
                i \in (IF sh \in UsesId THEN ids ELSE {0}),
                o \in (IF sh \in UsesOffset THEN offsets ELSE {0}),
                l \in (IF sh \in UsesLen THEN lens ELSE {0}) } :
            sh \in shapes }

\* The lines of a loose shape whose field text int() rejects.
BadFieldLines(shapes, times, cores) ==
    { MkLine("ok", TRUE, t, c, sh, FALSE, NoPeer, 0, 0, 0) :
        t \in times, c \in cores, sh \in shapes \cap LooseShapes }

\* --------------------------------------------------------- Dispatcher.parse

\* EventOf with the sign of the time lost.
EventOfNegTime(line) ==
    [ time |-> 0 - line.time, core |-> line.core, peer |-> line.peer,
      id |-> line.id, offset |-> line.offset, len |-> line.len ]

\* The fields a parser method hands to the tt_ methods.
EventOf(line) ==
    [ time |-> line.time, core |-> line.core, peer |-> line.peer,
      id |-> line.id, offset |-> line.offset, len |-> line.len ]

\* One call interest.tt_<shape>(trace, time, ...) of a parser's loop.  st
\* holds the two global tables, what was done for this line so far (the
\* patterns tried, the parsers called, the analyzers invoked and the time
\* each was handed) and the exception raised, if any.
Invoke(st, class, shape, tname, ev, opts) ==
    LET s1 == [st EXCEPT !.invoked = Append(@, class),
                         !.times = Append(@, ev.time)] IN
    CASE class = "AnalyzeRpc" ->
           [s1 EXCEPT !.rpcs = RpcHandler(shape, st.rpcs, st.traces[tname], ev)]
      [] class = "AnalyzeCopy" ->
           LET stats == st.traces[tname]["copy"]
               tr    == Put(st.traces[tname], "copy",
                            CopyHandler(shape, stats, ev))
           IN [s1 EXCEPT
                 !.traces = Put(st.traces, tname, tr),
                 !.error = IF CopyRaises(shape, stats, ev, opts)
                           THEN "ZeroDivisionError" ELSE @]
      [] OTHER -> s1

\* Deliver stopping after the first interested analyzer.
DeliverFirstOnly(st, interests, i, shape, tname, ev, opts) ==
    IF i > Len(interests) \/ i > 1 \/ st.error # "" THEN st
    ELSE Invoke(st, interests[i], shape, tname, ev, opts)

\* "for interest in interests: interest.tt_<shape>(...)", from subscriber i.
RECURSIVE Deliver(_, _, _, _, _, _, _)
Deliver(st, interests, i, shape, tname, ev, opts) ==
    IF i > Len(interests) \/ st.error # "" THEN st
    ELSE Deliver(Invoke(st, interests[i], shape, tname, ev, opts),
                 interests, i + 1, shape, tname, ev, opts)

\* Parser without the length test of __send_data.
ParserNoLengthTest(shape, st, tname, line, interests, opts) ==
    IF shape \in LooseShapes /\ ~line.conv
    THEN [st EXCEPT !.error = "ValueError"]
    ELSE Deliver(st, interests, 1, shape, tname, EventOf(line), opts)

\* The parser method __<shape>: the int() conversions of the groups, the
\* length test of __send_data, then the calls of the interested analyzers.
Parser(shape, st, tname, line, interests, opts) ==
    IF shape \in LooseShapes /\ ~line.conv
    THEN [st EXCEPT !.error = "ValueError"]
    ELSE IF shape = "send_data" /\ line.len = 0 THEN st
    ELSE Deliver(st, interests, 1, shape, tname, EventOf(line), opts)

\* Dispatch without the break: the loop goes on after a parser was called.
RECURSIVE DispatchNoBreak(_, _, _, _, _, _)
DispatchNoBreak(dd, st, i, tname, line, opts) ==
    IF i > Len(dd.active) THEN st
    ELSE LET pattern == dd.active[i]
             s1 == [st EXCEPT !.tried = Append(@, pattern)]
             s2 == IF Matches(pattern, line)
                   THEN Parser(pattern,
                               [s1 EXCEPT !.parsed = Append(@, pattern)],
                               tname, line, dd.interests[pattern], opts)
                   ELSE s1
         IN DispatchNoBreak(dd, s2, i + 1, tname, line, opts)

\* "for pattern in self.active", from pattern i: the pattern is matched
\* against the message; on a match its parser is called and the loop ends.
RECURSIVE Dispatch(_, _, _, _, _, _)
Dispatch(dd, st, i, tname, line, opts) ==
    IF i > Len(dd.active) THEN st
    ELSE LET pattern == dd.active[i]
             s1 == [st EXCEPT !.tried = Append(@, pattern)]
         IN IF Matches(pattern, line)
            THEN Parser(pattern, [s1 EXCEPT !.parsed = Append(@, pattern)],
                        tname, line, dd.interests[pattern], opts)
            ELSE Dispatch(dd, s1, i + 1, tname, line, opts)

\* ------------------------------------------------------ helper functions

\* sorted(items, key = the k-th element): the sort is stable.
InsertByKey(sorted, x, k) ==
    LET n == Cardinality({ i \in 1 .. Len(sorted) : sorted[i][k] <= x[k] })
    IN SubSeq(sorted, 1, n) \o << x >> \o SubSeq(sorted, n + 1, Len(sorted))

RECURSIVE SortByKey(_, _)
SortByKey(items, k) ==
    IF items = << >> THEN << >>
    ELSE InsertByKey(SortByKey(SubSeq(items, 1, Len(items) - 1), k),
                     items[Len(items)], k)

\* extract_num: the first number in a trace name, None (-1) without one.
None == -1
extract_num(name) ==
    CASE name = "node1" -> 1
      [] name = "node2" -> 2
      [] OTHER -> None

\* get_sorted_nodes: the trace names, by the number in the name (all names
\* of the model have one).
get_sorted_nodes(traces) ==
    LET keyed == { << extract_num(n), n >> : n \in DOMAIN traces }
        seq == CHOOSE s \in [1 .. Cardinality(keyed) -> keyed] :
                 \A i, j \in DOMAIN s : i < j => s[i][1] < s[j][1]
    IN [ i \in DOMAIN seq |-> seq[i][2] ]

\* The value get_packet_size settles on when no RPC tells the packet size.
DefaultPacketSize == 100000

\* get_packet_size, from the i-th RPC of the table on.  An RPC counts when
\* it has two softirq_data packets or more, one at offset 0, and a
\* recvmsg_done; size2 stays None, so with four packets or more the
\* function returns at a gap equal to the first one, and otherwise the gap
\* is kept and the loop goes on.
RECURSIVE packet_size_from(_, _, _, _)
packet_size_from(rpcs, order, i, result) ==
    IF i > Len(order)
    THEN IF result = None THEN DefaultPacketSize ELSE result
    ELSE LET rpc == rpcs[order[i]]
             pkts == SortByKey(rpc["softirq_data"], 2)
             offsets == [ j \in DOMAIN pkts |-> pkts[j][2] ]
         IN IF Len(offsets) < 2 \/ offsets[1] # 0
                 \/ ~Has(rpc, "recvmsg_done")
            THEN packet_size_from(rpcs, order, i + 1, result)
            ELSE LET size1 == offsets[2] - offsets[1]
                 IN IF Len(offsets) >= 4
                         /\ \E j \in 3 .. Len(offsets) :
                              offsets[j] - offsets[j - 1] = size1
                    THEN size1
                    ELSE packet_size_from(rpcs, order, i + 1, size1)

get_packet_size(rpcs, order) == packet_size_from(rpcs, order, 1, None)

\* The result of an output method: the rows it printed and the exception
\* that ended it, "" when it returned.
Printed(rows, err) == [ rows |-> rows, error |-> err ]

\* -------------------------------------------------------- AnalyzeActivity

\* One turn of the loop of sum_list.
sum_step(acc, marker) ==
    LET delta == marker[1] - acc.last_time
    IN [ num_starts |-> acc.num_starts
                          + (IF marker[2] = "start" THEN 1 ELSE 0),
         cur_active |-> acc.cur_active
                          + (IF marker[2] = "start" THEN 1 ELSE -1),
         active_time |-> acc.active_time
                           + (IF acc.cur_active # 0 THEN delta ELSE 0),
         active_integral |-> acc.active_integral + delta * acc.cur_active,
         last_time |-> marker[1] ]

RECURSIVE sum_loop(_, _, _)
sum_loop(events, i, acc) ==
    IF i > Len(events) THEN acc
    ELSE sum_loop(events, i + 1, sum_step(acc, events[i]))

\* AnalyzeActivity.sum_list.  The two quotients are kept as their numerators
\* and the common denominator total_time; events[0] of an empty list is an
\* IndexError and a total_time of 0 a ZeroDivisionError.
sum_list(events) ==
    LET none == [ error |-> "", num_starts |-> 0, active_time |-> 0,
                  active_integral |-> 0, total_time |-> 0 ]
    IN IF events = << >> THEN [none EXCEPT !.error = "IndexError"]
       ELSE LET acc == sum_loop(events, 1,
                                [ num_starts |-> 0, cur_active |-> 0,
                                  active_time |-> 0, active_integral |-> 0,
                                  last_time |-> events[1][1] ])
                total_time == events[Len(events)][1] - events[1][1]
            IN IF total_time = 0
               THEN [none EXCEPT !.error = "ZeroDivisionError"]
               ELSE [ error |-> "", num_starts |-> acc.num_starts,
                      active_time |-> acc.active_time,
                      active_integral |-> acc.active_integral,
                      total_time |-> total_time ]

\* in_markers looking for offset 0 at the first GRO packet only.
in_markers_first_packet(rpc, traces) ==
    LET gros == rpc["gro_data"]
        node == rpc["name"]
        in_start == IF gros[1][2] = 0 THEN gros[1][1]
                    ELSE traces[node]["first_time"]
        in_end == IF Has(rpc, "recvmsg_done") THEN rpc["recvmsg_done"]
                  ELSE traces[node]["last_time"]
    IN IF gros = << >> THEN << >>
       ELSE << << in_start, "start" >>, << in_end, "end" >> >>

\* output: the two markers of the input message of an RPC, none when GRO
\* saw no packet of it.
in_markers(rpc, traces) ==
    LET gros == rpc["gro_data"]
        node == rpc["name"]
        in_start == IF gros[1][2] = 0 THEN gros[1][1]
                    ELSE IF \E j \in DOMAIN gros : gros[j][2] = 0
                         THEN gros[1][1]
                         ELSE traces[node]["first_time"]
        in_end == IF Has(rpc, "recvmsg_done") THEN rpc["recvmsg_done"]
                  ELSE traces[node]["last_time"]
    IN IF gros = << >> THEN << >>
       ELSE << << in_start, "start" >>, << in_end, "end" >> >>

\* output: the bytes received for an RPC; the test for 'rcvmsg_done' never
\* finds the key, so the count comes from the offsets and the packet size.
in_bytes(rpc, packet_size) ==
    LET offsets == { rpc["gro_data"][j][2] : j \in DOMAIN rpc["gro_data"] }
        min_offset == CHOOSE o \in offsets : \A p \in offsets : o <= p
        max_offset == CHOOSE o \in offsets : \A p \in offsets : o >= p
    IN IF Has(rpc, "rcvmsg_done") THEN rpc["in_length"] - min_offset
       ELSE max_offset + packet_size - min_offset

\* output: the two markers of the output message of an RPC.
out_markers(rpc, traces) ==
    LET pkts == rpc["send_data"]
        node == rpc["name"]
        out_start == IF Has(rpc, "sendmsg") THEN rpc["sendmsg"]
                     ELSE traces[node]["first_time"]
        last == pkts[Len(pkts)]
        out_end == IF Has(rpc, "out_length")
                        /\ last[2] + last[3] # rpc["out_length"]
                   THEN traces[node]["last_time"]
                   ELSE last[1]
    IN IF pkts = << >> THEN << >>
       ELSE << << out_start, "start" >>, << out_end, "end" >> >>

RECURSIVE out_bytes(_)
out_bytes(pkts) ==
    IF pkts = << >> THEN 0
    ELSE out_bytes(SubSeq(pkts, 1, Len(pkts) - 1)) + pkts[Len(pkts)][3]

\* output: what the loop over rpcs.items() collects for one node, from the
\* i-th RPC on: the markers of the two directions and the byte counts (the
\* input bytes summed over the GRO cores).
RECURSIVE node_events(_, _, _, _, _, _)
node_events(rpcs, order, i, traces, node, acc) ==
    IF i > Len(order) THEN acc
    ELSE LET rpc == rpcs[order[i]]
         IN IF rpc["name"] # node
            THEN node_events(rpcs, order, i + 1, traces, node, acc)
            ELSE node_events(rpcs, order, i + 1, traces, node,
                   [ in_events |-> acc.in_events \o in_markers(rpc, traces),
                     in_bytes |-> acc.in_bytes
                        + (IF rpc["gro_data"] = << >> THEN 0
                           ELSE in_bytes(rpc, get_packet_size(rpcs, order))),
                     out_events |->
                        acc.out_events \o out_markers(rpc, traces),
                     out_bytes |-> acc.out_bytes
                                     + out_bytes(rpc["send_data"]) ])

\* print_list: the row of one node and direction.  The markers are sorted
\* and summed; the rates divide by the span of the markers, by the elapsed
\* time of the trace and by the active fraction.
print_list(node, dir, events, num_bytes, traces) ==
    LET sorted == SortByKey(events, 1)
        sums == sum_list(sorted)
    IN IF sums.error # "" THEN Printed(<< >>, sums.error)
       ELSE IF traces[node]["elapsed_time"] = 0 \/ sums.active_time = 0
       THEN Printed(<< >>, "ZeroDivisionError")
       ELSE Printed(<< [ analyzer |-> "activity", dir |-> dir,
                         node |-> node, events |-> sorted,
                         msgs |-> sums.num_starts,
                         active_time |-> sums.active_time,
                         active_integral |-> sums.active_integral,
                         total_time |-> sums.total_time,
                         bytes |-> num_bytes ] >>, "")

\* The two loops over get_sorted_nodes() at the end of output: the rows of
\* direction dir from the i-th node on.  In the first loop max_gbps is
\* computed before print_list is called.
RECURSIVE print_lists(_, _, _, _, _, _, _)
print_lists(rpcs, order, traces, nodes, i, dir, rows) ==
    IF i > Len(nodes) THEN Printed(rows, "")
    ELSE LET node == nodes[i]
             evs == node_events(rpcs, order, 1, traces, node,
                                [ in_events |-> << >>, in_bytes |-> 0,
                                  out_events |-> << >>, out_bytes |-> 0 ])
             row == IF dir = "in"
                    THEN IF traces[node]["elapsed_time"] = 0
                         THEN Printed(<< >>, "ZeroDivisionError")
                         ELSE print_list(node, dir, evs.in_events,
                                         evs.in_bytes, traces)
                    ELSE print_list(node, dir, evs.out_events,
                                    evs.out_bytes, traces)
         IN IF row.error # "" THEN Printed(rows, row.error)
            ELSE print_lists(rpcs, order, traces, nodes, i + 1, dir,
                             rows \o row.rows)

\* AnalyzeActivity.output
activity_output(rpcs, order, traces) ==
    LET nodes == get_sorted_nodes(traces)
        ins == print_lists(rpcs, order, traces, nodes, 1, "in", << >>)
    IN IF ins.error # "" THEN ins
       ELSE print_lists(rpcs, order, traces, nodes, 1, "out", ins.rows)

\* ------------------------------------------------------------- AnalyzeNet

\* The xmit_offset collect_events starts from when the sender has no packet.
NoXmitOffset == 100000000

\* The event a packet sender's bytes are reported with.
xmit_event(c, core) == << c.time, "xmit", c.bytes, core, 0 >>

\* collect_events, in the while loop: the event of the packet that is left,
\* if bytes of it were received, and "xmit_ix += 1".
xmit_done(c, core) ==
    [c EXCEPT !.out = IF c.bytes # 0 THEN Append(@, xmit_event(c, core))
                      ELSE @,
              !.ix = @ + 1]

\* collect_events, in the while loop: the next packet of the sender, all
\* but its time.
xmit_at_first_time(c, pkt) ==
    [c EXCEPT !.offset = pkt[2], !.length = pkt[3], !.bytes = 0]

\* collect_events, in the while loop: the next packet of the sender.
xmit_at(c, pkt) ==
    [c EXCEPT !.time = pkt[1], !.offset = pkt[2], !.length = pkt[3],
              !.bytes = 0]

\* next_xmit keeping the time of the packet it started from.
RECURSIVE next_xmit_first_time(_, _, _, _)
xmit_step_first_time(c, recv_offset, xmit_pkts, core) ==
    IF c.ix >= Len(xmit_pkts) THEN c
    ELSE next_xmit_first_time(xmit_at_first_time(c, xmit_pkts[c.ix + 1]),
                              recv_offset, xmit_pkts, core)

next_xmit_first_time(c, recv_offset, xmit_pkts, core) ==
    IF recv_offset < c.offset + c.length THEN c
    ELSE xmit_step_first_time(xmit_done(c, core), recv_offset, xmit_pkts,
                              core)

\* collect_events: "while recv_offset >= (xmit_offset + xmit_length)".  c
\* holds xmit_ix, the packet it stands for (time, offset, length),
\* xmit_bytes, the events appended and the warnings printed so far.  When
\* the packets run out the loop is left with xmit_bytes as it was.
RECURSIVE next_xmit(_, _, _, _)
xmit_step(c, recv_offset, xmit_pkts, core) ==
    IF c.ix >= Len(xmit_pkts) THEN c
    ELSE next_xmit(xmit_at(c, xmit_pkts[c.ix + 1]), recv_offset, xmit_pkts,
                   core)

next_xmit(c, recv_offset, xmit_pkts, core) ==
    IF recv_offset < c.offset + c.length THEN c
    ELSE xmit_step(xmit_done(c, core), recv_offset, xmit_pkts, core)

\* collect_events: the length of the i-th packet received, which is the
\* distance to the next packet, or to the end of the message for the last
\* one, and max_data at most.
recv_length(i, recv_pkts, xmit_end, max_data) ==
    IF (IF i = Len(recv_pkts) THEN xmit_end ELSE recv_pkts[i + 1][2])
         - recv_pkts[i][2] > max_data
    THEN max_data
    ELSE (IF i = Len(recv_pkts) THEN xmit_end ELSE recv_pkts[i + 1][2])
           - recv_pkts[i][2]

\* collect_events: the event of a packet received, the warning when it was
\* received before it was sent, and "xmit_bytes += length".
recv_event(c, recv_time, length, core, opts) ==
    [c EXCEPT !.out = Append(@, << recv_time, "recv", length, core,
                                   recv_time - c.time >>),
              !.warn = IF recv_time < c.time /\ ~opts.negative_ok
                       THEN Append(@, << recv_time, c.time >>)
                       ELSE @,
              !.bytes = @ + length]

\* recv_packets blind to the resends and retransmits of the two records.
RECURSIVE recv_packets_all(_, _, _, _, _, _, _)
recv_packet_all(c, i, recv_pkts, xmit_pkts, pair, max_data, opts) ==
    IF c.ix >= Len(xmit_pkts) THEN c
    ELSE recv_packets_all(
           recv_event(c, recv_pkts[i][1],
                      recv_length(i, recv_pkts, pair.xmit_end, max_data),
                      pair.core, opts),
           i + 1, recv_pkts, xmit_pkts, pair, max_data, opts)

recv_packets_all(c, i, recv_pkts, xmit_pkts, pair, max_data, opts) ==
    IF i > Len(recv_pkts) THEN c
    ELSE IF recv_pkts[i][2] < c.offset
    THEN recv_packets_all(c, i + 1, recv_pkts, xmit_pkts, pair, max_data,
                          opts)
    ELSE recv_packet_all(next_xmit(c, recv_pkts[i][2], xmit_pkts, pair.core),
                         i, recv_pkts, xmit_pkts, pair, max_data, opts)

\* collect_events: "for i in range(0, len(recv_pkts))", from packet i on.
\* pair holds xmit_end, the GRO core of the receiver and the offsets in the
\* receiver's resends and the sender's retransmits.  recv_packet is the
\* turn of packet i after the while loop.
RECURSIVE recv_packets(_, _, _, _, _, _, _)
recv_packet(c, i, recv_pkts, xmit_pkts, pair, max_data, opts) ==
    IF c.ix >= Len(xmit_pkts) THEN c
    ELSE IF recv_pkts[i][2] \in pair.resent
    THEN recv_packets(c, i + 1, recv_pkts, xmit_pkts, pair, max_data, opts)
    ELSE recv_packets(
           recv_event(c, recv_pkts[i][1],
                      recv_length(i, recv_pkts, pair.xmit_end, max_data),
                      pair.core, opts),
           i + 1, recv_pkts, xmit_pkts, pair, max_data, opts)

recv_packets(c, i, recv_pkts, xmit_pkts, pair, max_data, opts) ==
    IF i > Len(recv_pkts) THEN c
    ELSE IF recv_pkts[i][2] < c.offset
    THEN recv_packets(c, i + 1, recv_pkts, xmit_pkts, pair, max_data, opts)
    ELSE recv_packet(next_xmit(c, recv_pkts[i][2], xmit_pkts, pair.core),
                     i, recv_pkts, xmit_pkts, pair, max_data, opts)

\* collect_events: xmit_end, the end of the sender's last packet or else
\* the length of the message.
xmit_end_of(xmit_pkts, xmit_rpc, recv_rpc) ==
    IF xmit_pkts # << >>
    THEN xmit_pkts[Len(xmit_pkts)][2] + xmit_pkts[Len(xmit_pkts)][3]
    ELSE IF Has(xmit_rpc, "out_length") THEN xmit_rpc["out_length"]
    ELSE recv_rpc["in_length"]

\* collect_events: the sender's first packet, before the loop over the
\* receiver's packets.
first_xmit(xmit_pkts) ==
    IF xmit_pkts # << >>
    THEN [ ix |-> 0, time |-> xmit_pkts[1][1], offset |-> xmit_pkts[1][2],
           length |-> xmit_pkts[1][3], bytes |-> 0, out |-> << >>,
           warn |-> << >> ]
    ELSE [ ix |-> 0, time |-> None, offset |-> NoXmitOffset, length |-> 0,
           bytes |-> 0, out |-> << >>, warn |-> << >> ]

\* collect_events: "if xmit_bytes:" after the loop over the receiver's
\* packets.
last_xmit(c, core) ==
    [ out |-> IF c.bytes # 0 THEN Append(c.out, xmit_event(c, core))
              ELSE c.out,
      warn |-> c.warn ]

\* collect_events: the body of the loop over the RPCs for the sorted
\* packets of one sender and of its receiver.
match_packets(xmit_pkts, recv_pkts, xmit_rpc, recv_rpc, max_data, opts) ==
    IF \/ ~Has(recv_rpc, "gro_core")
       \/ ~(xmit_pkts # << >> \/ Has(xmit_rpc, "out_length")
              \/ Has(recv_rpc, "in_length"))
    THEN [ out |-> << >>, warn |-> << >> ]
    ELSE last_xmit(
           recv_packets(first_xmit(xmit_pkts), 1, recv_pkts, xmit_pkts,
                        [ xmit_end |-> xmit_end_of(xmit_pkts, xmit_rpc,
                                                   recv_rpc),
                          core |-> recv_rpc["gro_core"],
                          resent |-> DOMAIN recv_rpc["resends"]
                                       \cup DOMAIN xmit_rpc["retransmits"] ],
                        max_data, opts),
           recv_rpc["gro_core"])

\* collect_events: the body of the loop over the RPCs for one sender and its
\* receiver: the events appended to the receiver's list and the warnings.
collect_pair(xmit_rpc, recv_rpc, max_data, opts) ==
    match_packets(SortByKey(xmit_rpc["send_data"], 2),
                  SortByKey(recv_rpc["gro_data"], 2), xmit_rpc, recv_rpc,
                  max_data, opts)

\* collect_events: the events of a pair go to the list of the receiver's
\* node.  acc.receivers maps a trace name to its events and acc.names lists
\* its keys in the order they were entered: the name of a receiver gets an
\* entry as soon as its record is looked at.
collect_add(acc, name, got) ==
    [ receivers |-> Put(acc.receivers, name,
                        (IF Has(acc.receivers, name)
                         THEN acc.receivers[name] ELSE << >>) \o got.out),
      names |-> IF Has(acc.receivers, name) THEN acc.names
                ELSE Append(acc.names, name),
      warn |-> acc.warn \o got.warn ]

\* collect_events: "for xmit_id, xmit_rpc in rpcs.items()", from the i-th RPC
\* on.
RECURSIVE collect_from(_, _, _, _, _)
collect_from(rpcs, order, i, opts, acc) ==
    IF i > Len(order) THEN acc
    ELSE IF ~Has(rpcs, Counterpart(order[i]))
    THEN collect_from(rpcs, order, i + 1, opts, acc)
    ELSE collect_from(rpcs, order, i + 1, opts,
           collect_add(acc, rpcs[Counterpart(order[i])]["name"],
                       collect_pair(rpcs[order[i]],
                                    rpcs[Counterpart(order[i])],
                                    get_packet_size(rpcs, order), opts)))

\* collect_events: "receiver.sort(key=lambda tuple : tuple[0])" for every
\* receiver.
sort_events(acc) ==
    [ receivers |-> [ name \in DOMAIN acc.receivers |->
                        SortByKey(acc.receivers[name], 1) ],
      names |-> acc.names,
      warn |-> acc.warn ]

\* AnalyzeNet.collect_events: the events of every receiver, sorted by time,
\* and the warnings printed on the way.
collect_events(rpcs, order, opts) ==
    sort_events(collect_from(rpcs, order, 1, opts,
                             [ receivers |-> EmptyDict, names |-> << >>,
                               warn |-> << >> ]))

\* The value of a new entry of stats[name] in summarize_events.
new_core_data ==
    ("num_packets" :> 0) @@ ("avg_delay" :> 0) @@ ("max_delay" :> 0)
      @@ ("avg_backlog" :> 0) @@ ("max_backlog" :> 0)
      @@ ("cur_backlog" :> 0) @@ ("prev_time" :> 0)

\* summarize_events: "core_data['avg_backlog'] += ..." for an event.
add_backlog(cd, time) ==
    Put(cd, "avg_backlog",
        cd["avg_backlog"] + cd["cur_backlog"] * (time - cd["prev_time"]))

\* summarize_events: the count and the sum of the delays of a core.
add_delay(cd, delay) ==
    Put(Put(cd, "num_packets", cd["num_packets"] + 1),
        "avg_delay", cd["avg_delay"] + delay)

\* summarize_events: "if delay > core_data['max_delay']".
new_max_delay(cd, time, delay) ==
    IF delay > cd["max_delay"]
    THEN Put(Put(cd, "max_delay", delay), "max_delay_time", time)
    ELSE cd

\* summarize_events: the backlog at a packet received.
less_backlog(cd, time, length) ==
    Put(IF cd["cur_backlog"] = cd["max_backlog"]
        THEN Put(cd, "max_backlog_time", time) ELSE cd,
        "cur_backlog", cd["cur_backlog"] - length)

\* summarize_events: "if core_data['cur_backlog'] > core_data['max_backlog']".
new_max_backlog(cd) ==
    IF cd["cur_backlog"] > cd["max_backlog"]
    THEN Put(cd, "max_backlog", cd["cur_backlog"])
    ELSE cd

\* summarize_events: the backlog at a packet sent.
more_backlog(cd, length) ==
    new_max_backlog(Put(cd, "cur_backlog", cd["cur_backlog"] + length))

\* summarize_events: one turn of "for event in node_events".
summarize_event(cd, event) ==
    Put(IF event[2] = "recv"
        THEN less_backlog(
               new_max_delay(
                 add_delay(add_backlog(cd, event[1]), event[5]),
                 event[1], event[5]),
               event[1], event[3])
        ELSE more_backlog(add_backlog(cd, event[1]), event[3]),
        "prev_time", event[1])

\* summarize_events: the statistics of the cores of one node, from the i-th
\* event of the node on; avg_delay and avg_backlog are sums until the loop
\* over node.values() divides them.
RECURSIVE summarize_node(_, _, _)
summarize_node(evs, i, node) ==
    IF i > Len(evs) THEN node
    ELSE summarize_node(evs, i + 1,
           Put(node, evs[i][4],
               summarize_event(IF Has(node, evs[i][4]) THEN node[evs[i][4]]
                               ELSE new_core_data,
                               evs[i])))

\* summarize_events: the divisions at the end of the turn of one node fail
\* when a core has no packet or the trace of the node covers no time.
divides_by_zero(node, trace) ==
    \E core \in DOMAIN node :
      node[core]["num_packets"] = 0 \/ trace["elapsed_time"] = 0

\* summarize_events: the 'Negative delay' lines printed for the events of a
\* node.
negative_delays(evs, opts) ==
    IF opts.negative_ok THEN << >>
    ELSE SelectSeq(evs, LAMBDA e : e[2] = "recv" /\ e[5] < 0)

\* summarize_events: "for name, node_events in events.items()", from the
\* i-th node on: the 'Negative delay' lines printed and the exception that
\* ended the loop.
RECURSIVE summarize_from(_, _, _, _, _, _)
summarize_from(events, names, i, traces, opts, warn) ==
    IF i > Len(names) THEN [ warn |-> warn, error |-> "" ]
    ELSE IF divides_by_zero(summarize_node(events[names[i]], 1, EmptyDict),
                            traces[names[i]])
    THEN [ warn |-> warn \o negative_delays(events[names[i]], opts),
           error |-> "ZeroDivisionError" ]
    ELSE summarize_from(events, names, i + 1, traces, opts,
                        warn \o negative_delays(events[names[i]], opts))

\* summarize_events: the statistics with the lines printed and the
\* exception, if any, of the loop over the nodes.
summary_of(events, run) ==
    [ stats |-> [ name \in DOMAIN events |->
                    summarize_node(events[name], 1, EmptyDict) ],
      warn |-> run.warn,
      error |-> run.error ]

\* AnalyzeNet.summarize_events: node name -> core -> statistics, with the
\* lines it prints.  avg_delay and avg_backlog are kept as sums, the
\* divisors being num_packets and the elapsed time of the trace.
summarize_events(events, names, traces, opts) ==
    summary_of(events, summarize_from(events, names, 1, traces, opts, << >>))

\* The cores of a node in the order of sorted(node.keys()).
RECURSIVE sorted_cores(_)
sorted_cores(cores) ==
    IF cores = {} THEN << >>
    ELSE LET least == CHOOSE c \in cores : \A e \in cores : c <= e
         IN << least >> \o sorted_cores(cores \ { least })

\* output: the line printed for a core.
net_row(name, core, cd) ==
    [ analyzer |-> "net", kind |-> "core", node |-> name, core |-> core,
      num_packets |-> cd["num_packets"],
      delay_sum |-> cd["avg_delay"],
      max_delay |-> cd["max_delay"],
      max_delay_time |-> cd["max_delay_time"],
      backlog_sum |-> cd["avg_backlog"],
      max_backlog |-> cd["max_backlog"],
      max_backlog_time |-> cd["max_backlog_time"] ]

\* output: the rows of one node, from the i-th core on; a core that never
\* got a max_delay_time or a max_backlog_time is a KeyError in the print.
RECURSIVE net_rows(_, _, _, _, _)
net_rows(name, node, cores, i, rows) ==
    IF i > Len(cores) THEN Printed(rows, "")
    ELSE IF \/ ~Has(node[cores[i]], "max_delay_time")
            \/ ~Has(node[cores[i]], "max_backlog_time")
    THEN Printed(rows, "KeyError")
    ELSE net_rows(name, node, cores, i + 1,
                  Append(rows, net_row(name, cores[i], node[cores[i]])))

\* output: "for name in get_sorted_nodes()", from the i-th node on, r being
\* what the nodes before it gave.
RECURSIVE net_nodes(_, _, _, _)
net_nodes(stats, nodes, i, r) ==
    IF i > Len(nodes) \/ r.error # "" THEN r
    ELSE IF ~Has(stats, nodes[i]) THEN net_nodes(stats, nodes, i + 1, r)
    ELSE net_nodes(stats, nodes, i + 1,
                   net_rows(nodes[i], stats[nodes[i]],
                            sorted_cores(DOMAIN stats[nodes[i]]), 1, r.rows))

\* A warning about a packet that was received before it was sent.
Warning(w) == [ analyzer |-> "net", kind |-> "warning", what |-> w ]

\* The warnings for the packets in warn.
Warnings(warn) == [ i \in DOMAIN warn |-> Warning(warn[i]) ]

\* output: the table of the cores after the warnings of collect_events and
\* summarize_events, or the exception that ended summarize_events.
net_table(warn, summary, traces) ==
    IF summary.error # ""
    THEN Printed(Warnings(warn \o summary.warn), summary.error)
    ELSE net_nodes(summary.stats, get_sorted_nodes(traces), 1,
                   Printed(Warnings(warn \o summary.warn), ""))

\* output: summarize_events on what collect_events returned.
net_summary(collected, traces, opts) ==
    net_table(collected.warn,
              summarize_events(collected.receivers, collected.names, traces,
                               opts),
              traces)

\* options.data_dir when --data is not given (None in the script; a
\* directory is a name that is not empty).
NoDataDir == ""

\* generate_delay_data: core_data[core], the times and delays of the
\* packets received on a core.
core_delays(evs, core) ==
    LET pkts == SelectSeq(evs,
                          LAMBDA e : e[2] = "recv" /\ e[4] = core)
    IN [ i \in DOMAIN pkts |-> << pkts[i][1], pkts[i][5] >> ]

\* generate_delay_data: the file of one node.
delay_file(name, evs) ==
    [ analyzer |-> "net", kind |-> "delay", node |-> name,
      cores |-> [ core \in { evs[i][4] :
                               i \in { j \in DOMAIN evs :
                                         evs[j][2] = "recv" } } |->
                    core_delays(evs, core) ] ]

\* generate_delay_data: "for name, node_events in events.items()".
delay_data(events, names) ==
    [ i \in DOMAIN names |-> delay_file(names[i], events[names[i]]) ]

\* generate_backlog_data: the length of an interval.
interval_length == 20

\* generate_backlog_data: a new interval, in which every core starts with
\* the backlog it had at the end of the one before, without the copy.
new_interval_at_zero(b) ==
    [ interval_end |-> b.interval_end + interval_length,
      cur_interval |-> b.cur_interval + 1,
      backlogs |-> [ core \in DOMAIN b.backlogs |->
                       Append(b.backlogs[core], 0) ] ]

\* generate_backlog_data: a new interval, in which every core starts with
\* the backlog it had at the end of the one before.
new_interval(b) ==
    [ interval_end |-> b.interval_end + interval_length,
      cur_interval |-> b.cur_interval + 1,
      backlogs |-> [ core \in DOMAIN b.backlogs |->
                       Append(b.backlogs[core],
                              b.backlogs[core][Len(b.backlogs[core])]) ] ]

\* generate_backlog_data: "while event_time >= interval_end".
RECURSIVE advance(_, _)
advance(b, event_time) ==
    IF event_time < b.interval_end THEN b
    ELSE advance(new_interval(b), event_time)

\* generate_backlog_data: "if not core in backlogs".
with_core(b, core) ==
    IF Has(b.backlogs, core) THEN b
    ELSE [b EXCEPT !.backlogs =
            Put(@, core, [ i \in 1 .. b.cur_interval + 1 |-> 0 ])]

\* generate_backlog_data: "backlogs[core][-1] -= length" for a packet
\* received and "+= length" for a packet sent.
add_to_last(b, type, length, core) ==
    [b EXCEPT !.backlogs[core][Len(b.backlogs[core])] =
                 IF type = "recv" THEN @ - length ELSE @ + length]

\* generate_backlog_data: "for event in node_events", from the i-th event
\* on.
RECURSIVE backlog_events(_, _, _)
backlog_events(evs, i, b) ==
    IF i > Len(evs) THEN b
    ELSE backlog_events(evs, i + 1,
           add_to_last(with_core(advance(b, evs[i][1]),
                                 evs[i][4]),
                       evs[i][2], evs[i][3],
                       evs[i][4]))

\* generate_backlog_data: the intervals of one node, which needs a first
\* event.  start is the time of the first event rounded down to a multiple
\* of interval_length.
backlogs_of(evs) ==
    backlog_events(evs, 1,
      [ interval_end |->
          (evs[1][1] \div interval_length) * interval_length
            + interval_length,
        cur_interval |-> 0,
        backlogs |-> EmptyDict ])

\* generate_backlog_data: the line 'Total intervals' and the file of one
\* node.
backlog_file(name, evs, b) ==
    [ analyzer |-> "net", kind |-> "backlog", node |-> name,
      start |-> (evs[1][1] \div interval_length) * interval_length,
      intervals |-> b.cur_interval, backlogs |-> b.backlogs ]

\* generate_backlog_data: "for name, node_events in events.items()", from
\* the i-th node on; node_events[0] of a node without events is an
\* IndexError.
RECURSIVE backlog_data(_, _, _, _)
backlog_data(events, names, i, rows) ==
    IF i > Len(names) THEN Printed(rows, "")
    ELSE IF events[names[i]] = << >> THEN Printed(rows, "IndexError")
    ELSE backlog_data(events, names, i + 1,
           Append(rows, backlog_file(names[i], events[names[i]],
                                     backlogs_of(events[names[i]]))))

\* output: what follows the two generate methods, which is nothing when
\* one of them raised.
after_data(data, rest) ==
    IF data.error # "" THEN data
    ELSE Printed(data.rows \o rest.rows, rest.error)

\* output: the warnings of collect_events, then the files of --data, then
\* summarize_events and the table.
net_with_data(collected, traces, opts) ==
    after_data(
      backlog_data(collected.receivers, collected.names, 1,
                   Warnings(collected.warn)
                     \o delay_data(collected.receivers, collected.names)),
      net_summary([collected EXCEPT !.warn = << >>], traces, opts))

\* AnalyzeNet.output: collect_events, with --data the two generate methods,
\* summarize_events and the table of the cores.
net_output(rpcs, order, traces, opts) ==
    IF opts.data_dir # NoDataDir
    THEN net_with_data(collect_events(rpcs, order, opts), traces, opts)
    ELSE net_summary(collect_events(rpcs, order, opts), traces, opts)

\* --------------------------------------------------------- AnalyzeTimeline

\* A phase of the tables of AnalyzeTimeline.output: the label, the element
\* of the RPC, and what the lambda makes of the element: "value"
\* (lambda x : x), "first" (x[0][0]), "last" (x[-1][0]) or "tuple"
\* ((print(x), x[0][0]), which is a pair and no time).
Phase(label, name, at) == [ label |-> label, name |-> name, at |-> at ]

client_phases ==
    << Phase("start", "sendmsg", "value"),
       Phase("first request packet sent", "send_data", "first"),
       Phase("softirq gets first grant", "softirq_grant", "first"),
       Phase("last request packet sent", "send_data", "last"),
       Phase("gro gets first response packet", "gro_data", "first"),
       Phase("sent grant", "send_grant", "tuple"),
       Phase("gro gets last response packet", "gro_data", "last"),
       Phase("homa_recvmsg returning", "recvmsg_done", "value") >>

client_extra ==
    << Phase("start", "sendmsg", "value"),
       Phase("finished copying req into pkts", "copy_in_done", "value"),
       Phase("started copying to user space", "copy_out_start", "value"),
       Phase("finished copying to user space", "copy_out_done", "value") >>

server_phases ==
    << Phase("start", "gro_data", "first"),
       Phase("sent grant", "send_grant", "first"),
       Phase("gro gets last request packet", "gro_data", "last"),
       Phase("homa_recvmsg returning", "recvmsg_done", "value"),
       Phase("homa_sendmsg response", "sendmsg", "value"),
       Phase("first response packet sent", "send_data", "first"),
       Phase("softirq gets first grant", "softirq_grant", "first"),
       Phase("last response packet sent", "send_data", "last") >>

server_extra ==
    << Phase("start", "gro_data", "first"),
       Phase("started copying to user space", "copy_out_start", "value"),
       Phase("finished copying to user space", "copy_out_done", "value"),
       Phase("finished copying req into pkts", "copy_in_done", "value") >>

\* "if rpc_phase:" is false for an empty list and for the time 0.0.
truthy(phase, x) == IF phase.at = "value" THEN x # 0 ELSE x # << >>

\* phase[2](rpc_phase), for the lambdas that return a time.
phase_time(phase, x) ==
    CASE phase.at = "value" -> x
      [] phase.at = "first" -> x[1][1]
      [] phase.at = "last" -> x[Len(x)][1]

\* __collect_stats: "for i in range(len(phases))" from the i-th phase on.
\* start and prev are unbound (None) until phase 0 is seen; a pair in the
\* place of t cannot be subtracted from.
RECURSIVE collect_phases(_, _, _, _)
collect_phases(phases, rpc, i, acc) ==
    IF i > Len(phases) THEN acc
    ELSE LET phase == phases[i]
         IN IF ~Has(rpc, phase.name) \/ ~truthy(phase, rpc[phase.name])
            THEN collect_phases(phases, rpc, i + 1, acc)
            ELSE IF phase.at = "tuple"
            THEN [ acc EXCEPT !.error = "TypeError" ]
            ELSE LET t == phase_time(phase, rpc[phase.name])
                     start == IF i = 1 THEN t ELSE acc.start
                     prev == IF i = 1 THEN t ELSE acc.prev
                 IN IF start = None
                    THEN [ acc EXCEPT !.error = "UnboundLocalError" ]
                    ELSE collect_phases(phases, rpc, i + 1,
                           [ totals |-> [ acc.totals EXCEPT
                                            ![i] = Append(@, t - start) ],
                             deltas |-> [ acc.deltas EXCEPT
                                            ![i] = Append(@, t - prev) ],
                             start |-> start,
                             prev |-> t,
                             error |-> "" ])

\* AnalyzeTimeline.__collect_stats
collect_stats(phases, rpc, totals, deltas) ==
    LET grown(lists) ==
            IF Len(phases) > Len(lists)
            THEN lists \o [ k \in 1 .. Len(phases) - Len(lists) |-> << >> ]
            ELSE lists
    IN collect_phases(phases, rpc, 1,
                      [ totals |-> grown(totals), deltas |-> grown(deltas),
                        start |-> None, prev |-> None, error |-> "" ])

\* output taking a client RPC that has called sendmsg, whether or not
\* recvmsg returned.
complete_started(id, rpc) ==
    IF id % 2 = 0
    THEN Has(rpc, "sendmsg")
    ELSE /\ rpc["gro_data"] # << >>
         /\ rpc["gro_data"][1][2] = 0
         /\ rpc["send_data"] # << >>

\* output: the tests that are followed by "continue" when they fail.
complete(id, rpc) ==
    IF id % 2 = 0
    THEN Has(rpc, "sendmsg") /\ Has(rpc, "recvmsg_done")
    ELSE /\ rpc["gro_data"] # << >>
         /\ rpc["gro_data"][1][2] = 0
         /\ rpc["send_data"] # << >>

\* The lists and counts of output before the first RPC.
no_stats ==
    [ num_client_rpcs |-> 0, num_server_rpcs |-> 0,
      client_totals |-> << >>, client_deltas |-> << >>,
      client_extra_totals |-> << >>, client_extra_deltas |-> << >>,
      server_totals |-> << >>, server_deltas |-> << >>,
      server_extra_totals |-> << >>, server_extra_deltas |-> << >>,
      error |-> "" ]

\* output: one turn of "for id, rpc in rpcs.items()".
timeline_rpc(id, rpc, acc) ==
    IF ~complete(id, rpc) THEN acc
    ELSE IF id % 2 = 0
    THEN LET main == collect_stats(client_phases, rpc, acc.client_totals,
                                   acc.client_deltas)
             extra == collect_stats(client_extra, rpc,
                                    acc.client_extra_totals,
                                    acc.client_extra_deltas)
         IN IF main.error # "" THEN [ acc EXCEPT !.error = main.error ]
            ELSE IF extra.error # "" THEN [ acc EXCEPT !.error = extra.error ]
            ELSE [ acc EXCEPT !.num_client_rpcs = @ + 1,
                              !.client_totals = main.totals,
                              !.client_deltas = main.deltas,
                              !.client_extra_totals = extra.totals,
                              !.client_extra_deltas = extra.deltas ]
    ELSE LET main == collect_stats(server_phases, rpc, acc.server_totals,
                                   acc.server_deltas)
             extra == collect_stats(server_extra, rpc,
                                    acc.server_extra_totals,
                                    acc.server_extra_deltas)
         IN IF main.error # "" THEN [ acc EXCEPT !.error = main.error ]
            ELSE IF extra.error # "" THEN [ acc EXCEPT !.error = extra.error ]
            ELSE [ acc EXCEPT !.num_server_rpcs = @ + 1,
                              !.server_totals = main.totals,
                              !.server_deltas = main.deltas,
                              !.server_extra_totals = extra.totals,
                              !.server_extra_deltas = extra.deltas ]

\* output: "for id, rpc in rpcs.items()" from the i-th RPC on.
RECURSIVE timeline_rpcs(_, _, _, _)
timeline_rpcs(rpcs, order, i, acc) ==
    IF i > Len(order) \/ acc.error # "" THEN acc
    ELSE timeline_rpcs(rpcs, order, i + 1,
                       timeline_rpc(order[i], rpcs[order[i]], acc))

\* The place sorted gives the k-th element of a list of numbers: equal
\* elements keep their order.
place(list, k) ==
    Cardinality({ j \in 1 .. Len(list) :
                    list[j] < list[k] \/ (list[j] = list[k] /\ j <= k) })

\* sorted(list) for a list of numbers.
sorted(list) ==
    [ i \in 1 .. Len(list) |->
        list[CHOOSE k \in 1 .. Len(list) : place(list, k) = i] ]

\* sum(list)
RECURSIVE sum(_)
sum(list) == IF list = << >> THEN 0 ELSE Head(list) + sum(Tail(list))

\* The index of the 90th percentile rounded up instead of down.
p90_index_up(n) == (9 * n + 9) \div 10

\* __print_phases: the index 9*len(list)//10 of the 90th percentile, counted
\* from 0.
p90_index(n) == (9 * n) \div 10

\* __print_phases: the exception of the line of a phase with samples: a
\* division by len(list) or an index past the end of a list.
phase_error(elapsed, gaps) ==
    IF Len(elapsed) = 0 \/ Len(gaps) = 0 THEN "ZeroDivisionError"
    ELSE IF \/ p90_index(Len(elapsed)) >= Len(elapsed)
            \/ p90_index(Len(gaps)) >= Len(gaps)
    THEN "IndexError"
    ELSE ""

\* __print_phases: the line of a phase with samples: the averages (here the
\* sums and the number of samples) and the 90th percentiles of the sorted
\* elapsed times and gaps.
phase_row(role, table, label, elapsed, gaps) ==
    [ analyzer |-> "timeline", kind |-> "phase", role |-> role,
      table |-> table, label |-> label, events |-> Len(elapsed),
      elapsed_sum |-> sum(elapsed), gaps_sum |-> sum(gaps),
      elapsed_p90 |-> elapsed[p90_index(Len(elapsed)) + 1],
      gaps_p90 |-> gaps[p90_index(Len(gaps)) + 1] ]

\* __print_phases: the line printed for a phase without samples.
no_events(role, table, label) ==
    [ analyzer |-> "timeline", kind |-> "no events", role |-> role,
      table |-> table, label |-> label ]

\* __print_phases, from the i-th phase on (the phases after the first are
\* printed), r being what was printed before.
RECURSIVE print_phases(_, _, _, _, _, _, _)
print_phases(role, table, phases, totals, deltas, i, r) ==
    IF i > Len(phases) \/ r.error # "" THEN r
    ELSE IF totals[i] = << >>
    THEN print_phases(role, table, phases, totals, deltas, i + 1,
           Printed(Append(r.rows, no_events(role, table, phases[i].label)),
                   ""))
    ELSE IF phase_error(sorted(totals[i]), sorted(deltas[i])) # ""
    THEN Printed(r.rows, phase_error(sorted(totals[i]), sorted(deltas[i])))
    ELSE print_phases(role, table, phases, totals, deltas, i + 1,
           Printed(Append(r.rows,
                          phase_row(role, table, phases[i].label,
                                    sorted(totals[i]), sorted(deltas[i]))),
                   ""))

\* output: the timeline of one role, printed after the lines r when an RPC
\* of the role was taken.
role_rows(role, num_rpcs, phases, totals, deltas, extra, xtotals, xdeltas, r) ==
    IF totals = << >> \/ r.error # "" THEN r
    ELSE print_phases(role, "extra", extra, xtotals, xdeltas, 2,
           print_phases(role, "main", phases, totals, deltas, 2,
                        Printed(Append(r.rows,
                                       [ analyzer |-> "timeline",
                                         kind |-> "rpcs", role |-> role,
                                         rpcs |-> num_rpcs ]),
                                "")))

\* output: the two timelines for the lists and counts s of the loop over
\* the RPCs.
timelines(s) ==
    IF s.error # "" THEN Printed(<< >>, s.error)
    ELSE role_rows("server", s.num_server_rpcs, server_phases,
                   s.server_totals, s.server_deltas, server_extra,
                   s.server_extra_totals, s.server_extra_deltas,
                   role_rows("client", s.num_client_rpcs, client_phases,
                             s.client_totals, s.client_deltas, client_extra,
                             s.client_extra_totals, s.client_extra_deltas,
                             Printed(<< >>, "")))

\* AnalyzeTimeline.output
timeline_output(rpcs, order) ==
    timelines(timeline_rpcs(rpcs, order, 1, no_stats))

\* ---------------------------------------------------------- get_time_stats

\* What get_time_stats returns for an empty list.
no_data == [ text |-> "no data" ]

\* The index p*len(sorted_data)//100 of a percentile, counted from 0.
percentile_index(n, p) == (p * n) \div 100

\* sorted_data[p*len(sorted_data)//100]
percentile(sorted_data, p) ==
    sorted_data[percentile_index(Len(sorted_data), p) + 1]

\* An index of get_time_stats past the end of the list: an IndexError.
index_error(n) == \E p \in { 50, 90, 99 } : percentile_index(n, p) >= n

\* The text get_time_stats makes of the sorted samples (the average as the
\* sum and the number of samples).
time_stats(sorted_data) ==
    [ text |-> "stats", min |-> sorted_data[1],
      p50 |-> percentile(sorted_data, 50),
      p90 |-> percentile(sorted_data, 90),
      p99 |-> percentile(sorted_data, 99),
      sum |-> sum(sorted_data), n |-> Len(sorted_data) ]

\* get_time_stats reporting the element of rank ceil(p*n/100), the index
\* ceil(p*n/100) - 1.
get_time_stats_nearest_rank(samples) ==
    IF samples = << >> THEN no_data
    ELSE [ time_stats(sorted(samples)) EXCEPT
             !.p50 = sorted(samples)[(50 * Len(samples) + 99) \div 100],
             !.p90 = sorted(samples)[(90 * Len(samples) + 99) \div 100],
             !.p99 = sorted(samples)[(99 * Len(samples) + 99) \div 100] ]

\* get_time_stats
get_time_stats(samples) ==
    IF samples = << >> THEN no_data
    ELSE IF index_error(Len(samples)) THEN [ text |-> "IndexError" ]
    ELSE time_stats(sorted(samples))

\* ------------------------------------------------------------------- state

VARIABLES
    pc,        \* where the script is: "register" (the loop over the analyzer
               \* names), "files" (between two calls of parse), "lines" (in
               \* the line loop of parse), "analyze" (all files parsed),
               \* "output" (in the loop that calls the output methods),
               \* "done" (the end of the script),
               \* "exit" (exit(1)), "abort" (an exception ended the run)
    error,     \* the exception that ended the run, "" when none did
    options,   \* the command-line options
    nreg,      \* analyzer names taken from the command line so far
    d,         \* the Dispatcher object
    traces,    \* the global traces: trace name -> trace
    rpcs,      \* the global rpcs: RPC id -> record
    nfiles,    \* calls of parse so far
    trace,     \* parse: the name of the trace being read
    first,     \* parse: the local variable first
    lineno,    \* parse: lines read from the current file
    nlines,    \* lines read from all files
    lastLine,  \* the line read last
    tried,     \* the patterns matched against lastLine, in order
    parsed,    \* the patterns whose parser was called for lastLine
    invoked,   \* the analyzers whose tt_ method was called for lastLine
    events,    \* the lines of the current file that were delivered to an
               \* analyzer: << line number, time handed over >>, in order
    inOrder,   \* whether the times of the lines of the current file that
               \* had an envelope were non-decreasing so far
    order,     \* the ids of rpcs in the order the records were created (the
               \* order in which rpcs.items() yields them)
    nout,      \* analyzers taken by the loop that calls the output methods
    report,    \* what the output methods printed so far, one record a row
    samples,   \* the list a helper function is called with
    stats,     \* the helper function called and what it returned
    tape,      \* the command line and the trace files of a run made twice
    before     \* what the run before this one left behind

vars ==
    << pc, error, options, nreg, d, traces, rpcs, nfiles, trace, first,
       lineno, nlines, lastLine, tried, parsed, invoked, events, inOrder,
       order, nout, report, samples, stats, tape, before >>

history == << lastLine, tried, parsed, invoked, order >>

results == << nout, report >>

calls == << samples, stats >>

\* No helper function was called.
NotCalled == [ call |-> "" ]

runs == << tape, before >>

\* No command line and no files were fixed for the run.
NoTape == [ classes |-> << >>, files |-> << >>, lines |-> << >> ]

\* There was no run before this one.
NotRun == [ pc |-> "" ]

\* The class names the command line can select: the classes of the module
\* and a name ("all", the default of --analyzers) that names no class.
UnknownClass == "AnalyzeAll"

InitState(optionSet, inputs, tapes) ==
    /\ pc = "register"
    /\ error = ""
    /\ options \in optionSet
    /\ nreg = 0
    /\ d = NewDispatcher
    /\ traces = EmptyDict
    /\ rpcs = EmptyDict
    /\ nfiles = 0
    /\ trace = ""
    /\ first = TRUE
    /\ lineno = 0
    /\ nlines = 0
    /\ lastLine = NoiseLine
    /\ tried = << >>
    /\ parsed = << >>
    /\ invoked = << >>
    /\ events = << >>
    /\ inOrder = TRUE
    /\ order = << >>
    /\ nout = 0
    /\ report = << >>
    /\ samples \in inputs
    /\ stats = NotCalled
    /\ tape \in tapes
    /\ before = NotRun

\* The state in which the script starts.
InitWith(optionSet) == InitState(optionSet, { << >> }, { NoTape })

\* The loop "for name in options.analyzers.split()" of the script: one name.
Register(classes) ==
    /\ pc = "register"
    /\ nreg < MaxAnalyzers
    /\ \E class \in classes :
         IF class = UnknownClass
         THEN /\ pc' = "exit"
              /\ UNCHANGED << d, error >>
         ELSE LET d1 == Interest(d, class)
              IN /\ d' = d1
                 /\ error' = d1.error
                 /\ pc' = IF d1.error # "" THEN "abort" ELSE "register"
    /\ nreg' = nreg + 1
    /\ UNCHANGED << options, traces, rpcs, nfiles, trace, first, lineno,
                    nlines, events, inOrder >>
    /\ UNCHANGED history
    /\ UNCHANGED results
    /\ UNCHANGED calls
    /\ UNCHANGED runs

\* The end of the loop over the analyzer names.
Registered ==
    /\ pc = "register"
    /\ pc' = "files"
    /\ UNCHANGED << error, options, nreg, d, traces, rpcs, nfiles, trace,
                    first, lineno, nlines, events, inOrder >>
    /\ UNCHANGED history
    /\ UNCHANGED results
    /\ UNCHANGED calls
    /\ UNCHANGED runs

\* parse(file) up to the line loop: the active list, the new trace, the
\* init_trace methods (AnalyzeCopy has one), open(file).
ParseBegin(names) ==
    /\ pc = "files"
    /\ nfiles < MaxFiles
    /\ \E name \in names, exists \in BOOLEAN :
         LET tr0 == [ file |-> name, name |-> name ]
             tr  == IF "AnalyzeCopy" \in d.analyzers
                    THEN Put(tr0, "copy", init_copy) ELSE tr0
         IN /\ d' = BuildActive(d)
            /\ traces' = Put(traces, name, tr)
            /\ trace' = name
            /\ pc' = IF exists THEN "lines" ELSE "abort"
            /\ error' = IF exists THEN "" ELSE "FileNotFoundError"
    /\ nfiles' = nfiles + 1
    /\ first' = TRUE
    /\ lineno' = 0
    /\ events' = << >>
    /\ inOrder' = TRUE
    /\ UNCHANGED << options, nreg, rpcs, nlines >>
    /\ UNCHANGED history
    /\ UNCHANGED results
    /\ UNCHANGED calls
    /\ UNCHANGED runs

\* EnvelopeMatch taking every line for a trace record.
EnvelopeMatchAny(line) == TRUE

\* re.match(' *([-0-9.]+) us .* \[C([0-9]+)\] (.*)', line)
EnvelopeMatch(line) == line.env = "ok"

\* One turn of "for line in f".
ParseLine(lines, maxLines) ==
    /\ pc = "lines"
    /\ nlines < maxLines
    /\ \E line \in lines :
         /\ lastLine' = line
         /\ IF ~EnvelopeMatch(line)
            THEN /\ tried' = << >>
                 /\ parsed' = << >>
                 /\ invoked' = << >>
                 /\ UNCHANGED << pc, error, traces, rpcs, first, events,
                                 inOrder >>
            ELSE IF ~line.tconv
            THEN /\ tried' = << >>
                 /\ parsed' = << >>
                 /\ invoked' = << >>
                 /\ pc' = "abort"
                 /\ error' = "ValueError"
                 /\ UNCHANGED << traces, rpcs, first, events, inOrder >>
            ELSE LET t1 == IF first
                           THEN Put(traces[trace], "first_time", line.time)
                           ELSE traces[trace]
                     t2 == Put(t1, "last_time", line.time)
                     st == Dispatch(d,
                                    [ rpcs |-> rpcs,
                                      traces |-> Put(traces, trace, t2),
                                      tried |-> << >>,
                                      parsed |-> << >>,
                                      invoked |-> << >>,
                                      times |-> << >>,
                                      error |-> "" ],
                                    1, trace, line, options)
                 IN /\ first' = FALSE
                    /\ tried' = st.tried
                    /\ parsed' = st.parsed
                    /\ invoked' = st.invoked
                    /\ rpcs' = st.rpcs
                    /\ traces' = st.traces
                    /\ error' = st.error
                    /\ pc' = IF st.error # "" THEN "abort" ELSE "lines"
                    /\ events' = IF st.invoked # << >>
                                 THEN Append(events,
                                             << lineno + 1, st.times[1] >>)
                                 ELSE events
                    /\ inOrder' = (inOrder /\
                                    (first \/ traces[trace]["last_time"]
                                                <= line.time))
    /\ order' = IF DOMAIN rpcs' = DOMAIN rpcs THEN order
                 ELSE Append(order,
                             CHOOSE i \in DOMAIN rpcs' \ DOMAIN rpcs : TRUE)
    /\ lineno' = lineno + 1
    /\ nlines' = nlines + 1
    /\ UNCHANGED << options, nreg, d, nfiles, trace >>
    /\ UNCHANGED results
    /\ UNCHANGED calls
    /\ UNCHANGED runs

\* The end of the file: f.close() and the elapsed time.  trace['last_time']
\* is a KeyError when no line of the file had an envelope.
ParseEnd ==
    /\ pc = "lines"
    /\ IF Has(traces[trace], "last_time")
       THEN /\ traces' = Put(traces, trace,
                             Put(traces[trace], "elapsed_time",
                                 traces[trace]["last_time"]
                                   - traces[trace]["first_time"]))
            /\ pc' = "files"
            /\ UNCHANGED error
       ELSE /\ pc' = "abort"
            /\ error' = "KeyError"
            /\ UNCHANGED traces
    /\ UNCHANGED << options, nreg, d, rpcs, nfiles, trace, first, lineno,
                    nlines, events, inOrder >>
    /\ UNCHANGED history
    /\ UNCHANGED results
    /\ UNCHANGED calls
    /\ UNCHANGED runs

\* The end of the loop over tt_files (the script exits before the loops
\* when tt_files is empty).
Parsed_All ==
    /\ pc = "files"
    /\ nfiles >= 1
    /\ pc' = "analyze"
    /\ UNCHANGED << error, options, nreg, d, traces, rpcs, nfiles, trace,
                    first, lineno, nlines, events, inOrder >>
    /\ UNCHANGED history
    /\ UNCHANGED results
    /\ UNCHANGED calls
    /\ UNCHANGED runs

\* The output method of an analyzer (AnalyzeRpc has none; the report of
\* AnalyzeCopy is not part of the model).
OutputOf(class, table, ids, trs, opts) ==
    CASE class = "AnalyzeRpc" -> Printed(<< >>, "")
      [] class = "AnalyzeActivity" -> activity_output(table, ids, trs)
      [] class = "AnalyzeNet" -> net_output(table, ids, trs, opts)
      [] class = "AnalyzeTimeline" -> timeline_output(table, ids)

\* hasattr(analyzer, 'analyze'): no class of the script has the method.
has_analyze(class) == FALSE

\* The loop "for analyzer in d.get_analyzers()" that calls the analyze
\* methods: it calls none.
Analyze ==
    /\ pc = "analyze"
    /\ \A i \in 1 .. Len(d.objs) : ~has_analyze(d.objs[i])
    /\ pc' = "output"
    /\ UNCHANGED << error, options, nreg, d, traces, rpcs, nfiles, trace,
                    first, lineno, nlines, events, inOrder >>
    /\ UNCHANGED history
    /\ UNCHANGED results
    /\ UNCHANGED calls
    /\ UNCHANGED runs

\* What an output method leaves behind: the lines it printed and, when an
\* exception ended it, the end of the run.
Emit(r) ==
    /\ report' = report \o r.rows
    /\ error' = r.error
    /\ pc' = IF r.error # "" THEN "abort" ELSE "output"

\* The turn of the output loop taken while files are still to be parsed.
Output_early ==
    /\ pc \in { "files", "output" }
    /\ nout < Len(d.objs)
    /\ Emit(OutputOf(d.objs[nout + 1], rpcs, order, traces, options))
    /\ nout' = nout + 1
    /\ UNCHANGED << options, nreg, d, traces, rpcs, nfiles, trace, first,
                    lineno, nlines, events, inOrder >>
    /\ UNCHANGED history
    /\ UNCHANGED calls
    /\ UNCHANGED runs

\* One turn of the loop "for analyzer in d.get_analyzers()" that calls the
\* output methods.
Output ==
    /\ pc = "output"
    /\ nout < Len(d.objs)
    /\ Emit(OutputOf(d.objs[nout + 1], rpcs, order, traces, options))
    /\ nout' = nout + 1
    /\ UNCHANGED << options, nreg, d, traces, rpcs, nfiles, trace, first,
                    lineno, nlines, events, inOrder >>
    /\ UNCHANGED history
    /\ UNCHANGED calls
    /\ UNCHANGED runs

\* The end of the script.
Finished ==
    /\ pc = "output"
    /\ nout = Len(d.objs)
    /\ pc' = "done"
    /\ UNCHANGED << error, options, nreg, d, traces, rpcs, nfiles, trace,
                    first, lineno, nlines, events, inOrder >>
    /\ UNCHANGED history
    /\ UNCHANGED results
    /\ UNCHANGED calls
    /\ UNCHANGED runs

\* ------------------------------------------------------- the specifications

FileNames == { "node1", "node2" }
Peers == { "peer1" }

\* Spec: the whole script up to the end of parsing, with any analyzer names
\* on the command line and either value of --verbose.  The lines are noise,
\* a line with a bad time and, at time 0, one well-formed line for every
\* pattern of the table, a zero-length send_data line and the lines whose
\* fields int() rejects; three kinds of line also come with time 1.
SpecClasses ==
    { "AnalyzeActivity", "AnalyzeCopy", "AnalyzeRpc", OtherClass,
      UnknownClass }

SpecLines ==
    { NoiseLine, BadTimeLine }
      \cup ShapeLines(PatternNames \cup { NoShape }, {0}, {0}, Peers,
                      {2}, {0}, {1})
      \cup ShapeLines({ "send_data" }, {0}, {0}, Peers, {2}, {0}, {0})
      \cup BadFieldLines(PatternNames, {0}, {0})
      \cup ShapeLines({ "gro_data", "copy_in_done", NoShape }, {1}, {0},
                      Peers, {2}, {0}, {1})

Init ==
    InitWith([ verbose : BOOLEAN, negative_ok : { FALSE },
               data_dir : { NoDataDir } ])

Next ==
    \/ Register(SpecClasses)
    \/ Registered
    \/ ParseBegin(FileNames)
    \/ ParseLine(SpecLines, MaxLines)
    \/ ParseEnd
    \/ Parsed_All

Spec == Init /\ [][Next]_vars

\* SpecRpc: AnalyzeRpc alone, fed every kind of event it handles, for one
\* RPC id, two offsets and two times.
RpcLines ==
    { NoiseLine }
      \cup ShapeLines(PatternNames, {0, 1}, {0}, Peers, {2}, {0, 1}, {1})
      \cup ShapeLines({ "send_data" }, {0, 1}, {0}, Peers, {2}, {0, 1}, {0})

InitRpc ==
    InitWith({ [ verbose |-> FALSE, negative_ok |-> FALSE,
                 data_dir |-> NoDataDir ] })

NextRpc ==
    \/ Register({ "AnalyzeRpc" })
    \/ Registered
    \/ ParseBegin(FileNames)
    \/ ParseLine(RpcLines, MaxRpcLines)
    \/ ParseEnd
    \/ Parsed_All

SpecRpc == InitRpc /\ [][NextRpc]_vars

\* SpecXmit: AnalyzeRpc alone, fed the two records of a transmitted packet
\* (ip_xmit, send_data) for one RPC id, in longer runs.
XmitLines ==
    ShapeLines({ "ip_xmit" }, {0, 1, 2}, {0}, Peers, {2}, {0, 1}, {0})
      \cup ShapeLines({ "send_data" }, {0, 1, 2}, {0}, Peers, {2}, {0, 1},
                      {0, 1})

NextXmit ==
    \/ Register({ "AnalyzeRpc" })
    \/ Registered
    \/ ParseBegin({ "node1" })
    \/ ParseLine(XmitLines, MaxXmitLines)
    \/ ParseEnd
    \/ Parsed_All

SpecXmit == InitRpc /\ [][NextXmit]_vars

\* SpecPair: AnalyzeRpc alone, fed every kind of event it handles for the
\* two ids of one RPC, the client's and the server's.
MaxPairLines == 2

PairLines == ShapeLines(PatternNames, {0}, {0}, Peers, {2, 3}, {0}, {1})

NextPair ==
    \/ Register({ "AnalyzeRpc" })
    \/ Registered
    \/ ParseBegin({ "node1" })
    \/ ParseLine(PairLines, MaxPairLines)
    \/ ParseEnd
    \/ Parsed_All

SpecPair == InitRpc /\ [][NextPair]_vars

\* SpecActivity: the script with --analyzers activity and one trace file,
\* whose lines tell of the input messages of two RPCs (first GRO packet,
\* recvmsg_done) and of an output packet of the first one.
MaxActLines == 4

ActLines ==
    ShapeLines({ "gro_data", "recvmsg_done" }, {0, 5, 10}, {0}, Peers,
               {2, 4}, {0}, {1})
      \cup ShapeLines({ "ip_xmit", "send_data" }, {5}, {0}, Peers, {2}, {0},
                      {1})

NextActivity ==
    \/ Register({ "AnalyzeActivity" })
    \/ Registered
    \/ ParseBegin({ "node1" })
    \/ ParseLine(ActLines, MaxActLines)
    \/ ParseEnd
    \/ Parsed_All
    \/ Analyze
    \/ Output
    \/ Finished

SpecActivity == InitRpc /\ [][NextActivity]_vars

\* SpecCopy: the script with --analyzers copy and one trace file, whose
\* lines are the starts and ends of copies on two cores, with byte counts at
\* and next to the two size limits.
MaxCopyLines == 2

CopyLines ==
    ShapeLines({ "copy_in_start", "copy_out_start" }, {0}, {0, 1}, Peers,
               {2}, {0}, {0})
      \cup ShapeLines({ "copy_in_done", "copy_out_done" }, {0, 3}, {0, 1},
                      Peers, {2}, {0}, {1000, 1001, 4999, 5000})

NextCopy ==
    \/ Register({ "AnalyzeCopy" })
    \/ Registered
    \/ ParseBegin({ "node1" })
    \/ ParseLine(CopyLines, MaxCopyLines)
    \/ ParseEnd
    \/ Parsed_All

SpecCopy == Init /\ [][NextCopy]_vars

\* SpecNet: the script with --analyzers net and the traces of two nodes,
\* each read once.  node1 sends RPC 2: its trace has up to two packets
\* (ip_xmit, then send_data) at offsets 0 and 500 and a retransmission;
\* node2 receives it as RPC 3: its trace has up to two GRO packets and a
\* RESEND.  A packet is sent before or after node2 got it, and the times of
\* the lines of a trace never go back.
MaxNetLines == 8

NetLinesAt ==
    LET now == traces[trace]["last_time"]
    IN IF trace = "node1"
       THEN CASE lineno = 0 ->
                   ShapeLines({ "ip_xmit" }, {0, 4}, {0}, Peers, {2},
                              {0, 500}, {0})
              [] lineno = 2 ->
                   ShapeLines({ "ip_xmit" }, {now + 1}, {0}, Peers, {2},
                              {0, 500}, {0})
              [] lineno \in {1, 3} ->
                   ShapeLines({ "send_data" }, {now}, {0}, Peers, {2},
                              {0, 500}, {500})
              [] lineno = 4 ->
                   ShapeLines({ "retransmit" }, {now + 1}, {0}, Peers, {2},
                              {0, 500}, {500})
              [] OTHER -> {}
       ELSE CASE lineno = 0 ->
                   ShapeLines({ "gro_data" }, {2}, {0}, Peers, {3}, {0, 500},
                              {0})
              [] lineno = 1 ->
                   ShapeLines({ "gro_data" }, {3, 6}, {0}, Peers, {3},
                              {0, 500}, {0})
              [] lineno = 2 ->
                   ShapeLines({ "resend" }, {now}, {0}, Peers, {3}, {0, 500},
                              {0})
              [] OTHER -> {}

InitNet ==
    InitWith([ verbose : { FALSE }, negative_ok : BOOLEAN,
               data_dir : { NoDataDir } ])

NextNet ==
    \/ Register({ "AnalyzeNet" })
    \/ Registered
    \/ ParseBegin(FileNames \ DOMAIN traces)
    \/ ParseLine(NetLinesAt, MaxNetLines)
    \/ ParseEnd
    \/ Parsed_All
    \/ Analyze
    \/ Output
    \/ Finished

SpecNet == InitNet /\ [][NextNet]_vars

\* SpecTimeline: the script with --analyzers timeline and one trace with
\* the events of a client RPC (id 2) and of a server RPC (id 3).  Every
\* line but the two of the transmitted packet may be some other text; the
\* first line is stamped 0 or 1 and every later line one more than its
\* number.
MaxTimelineLines == 7

TimelineLinesAt ==
    LET later == { lineno + 1 }
        other == ShapeLines({ NoShape }, later, {0}, Peers, {2}, {0}, {0})
    IN CASE lineno = 0 ->
              ShapeLines({ "sendmsg_request", NoShape }, {0, 1}, {0}, Peers,
                         {2}, {0}, {500})
         [] lineno = 1 ->
              other \cup ShapeLines({ "gro_data" }, later, {0}, Peers, {3},
                                    {0, 500}, {0})
         [] lineno = 2 ->
              ShapeLines({ "ip_xmit" }, later, {0}, Peers, {2, 3}, {0}, {0})
         [] lineno = 3 ->
              ShapeLines({ "send_data" }, later, {0}, Peers, {2, 3}, {0},
                         {500})
         [] lineno = 4 ->
              other
                \cup ShapeLines({ "send_grant" }, later, {0}, Peers, {2, 3},
                                {500}, {0})
                \cup ShapeLines({ "softirq_grant", "copy_out_start" }, later,
                                {0}, Peers, {2}, {500}, {0})
         [] lineno = 5 ->
              other \cup ShapeLines({ "gro_data" }, later, {0}, Peers,
                                    {2, 3}, {500}, {0})
         [] lineno = 6 ->
              other \cup ShapeLines({ "recvmsg_done" }, later, {0}, Peers,
                                    {2, 3}, {0}, {500})
         [] OTHER -> {}

NextTimeline ==
    \/ Register({ "AnalyzeTimeline" })
    \/ Registered
    \/ ParseBegin({ "node1" } \ DOMAIN traces)
    \/ ParseLine(TimelineLinesAt, MaxTimelineLines)
    \/ ParseEnd
    \/ Parsed_All
    \/ Analyze
    \/ Output
    \/ Finished

SpecTimeline == InitRpc /\ [][NextTimeline]_vars

\* SpecStats: the two places that compute percentiles, each called once with
\* a list of samples: every list of up to MaxSamples values of SampleValues,
\* the values 1 to 100 in rising and in falling order, and the values 1 to
\* 10.
MaxSamples == 4

SampleValues == 1 .. 3

RECURSIVE Lists(_)
Lists(n) ==
    IF n = 0 THEN { << >> }
    ELSE Lists(n - 1) \cup
         { Append(l, v) : l \in { m \in Lists(n - 1) : Len(m) = n - 1 },
                          v \in SampleValues }

OneToHundred == [ i \in 1 .. 100 |-> i ]

SampleLists ==
    Lists(MaxSamples) \cup
    { OneToHundred, [ i \in 1 .. 100 |-> 101 - i ], [ i \in 1 .. 10 |-> i ] }

InitStats ==
    InitState({ [ verbose |-> FALSE, negative_ok |-> FALSE,
                  data_dir |-> NoDataDir ] }, SampleLists, { NoTape })

\* A call of get_time_stats with the samples.
TimeStats ==
    /\ stats = NotCalled
    /\ stats' = [ call |-> "get_time_stats",
                  result |-> get_time_stats(samples) ]
    /\ UNCHANGED << pc, error, options, nreg, d, traces, rpcs, nfiles, trace,
                    first, lineno, nlines, events, inOrder, samples >>
    /\ UNCHANGED history
    /\ UNCHANGED results
    /\ UNCHANGED runs

\* A call of __print_phases with the first two phases of a client, the
\* samples being the elapsed times of the second phase, which are its gaps
\* too (the phase before it is the start).
PrintPhases ==
    /\ stats = NotCalled
    /\ stats' = [ call |-> "print_phases",
                  result |-> print_phases("client", "main",
                                          SubSeq(client_phases, 1, 2),
                                          << << 0 >>, samples >>,
                                          << << 0 >>, samples >>, 2,
                                          Printed(<< >>, "")) ]
    /\ UNCHANGED << pc, error, options, nreg, d, traces, rpcs, nfiles, trace,
                    first, lineno, nlines, events, inOrder, samples >>
    /\ UNCHANGED history
    /\ UNCHANGED results
    /\ UNCHANGED runs

NextStats == TimeStats \/ PrintPhases

SpecStats == InitStats /\ [][NextStats]_vars

\* SpecTwice: the script run twice with the same command line over the same
\* two trace files.  The analyzers are activity, net or both.  node1 sends
\* RPC 2: its file has up to MaxTapeLines lines, each the trace of the
\* packet at offset 0 (ip_xmit, send_data) or the ip_xmit of the packet at
\* offset 500, all with the time 4.  node2 receives it as RPC 3: its file
\* has up to MaxTapeLines - 1 lines, each the arrival of the packet at
\* offset 0 at time 4 or 5 or of the packet at offset 500 at time 4.
MaxTapeLines == 3

RECURSIVE LinesUpTo(_, _)
LinesUpTo(lines, n) ==
    IF n = 0 THEN { << >> }
    ELSE LinesUpTo(lines, n - 1) \cup
         { Append(l, v) :
             l \in { m \in LinesUpTo(lines, n - 1) : Len(m) = n - 1 },
             v \in lines }

SenderLines ==
    ShapeLines({ "ip_xmit" }, {4}, {0}, Peers, {2}, {0, 500}, {0})
      \cup ShapeLines({ "send_data" }, {4}, {0}, Peers, {2}, {0}, {500})

ReceiverLines ==
    ShapeLines({ "gro_data" }, {4}, {0}, Peers, {3}, {0, 500}, {0})
      \cup ShapeLines({ "gro_data" }, {5}, {0}, Peers, {3}, {0}, {0})

Tapes ==
    { [ classes |-> c, files |-> << "node1", "node2" >>,
        lines |-> [ node1 |-> l1, node2 |-> l2 ] ] :
        c \in { << "AnalyzeActivity" >>, << "AnalyzeNet" >>,
                << "AnalyzeActivity", "AnalyzeNet" >> },
        l1 \in LinesUpTo(SenderLines, MaxTapeLines),
        l2 \in LinesUpTo(ReceiverLines, MaxTapeLines - 1) }

InitTwice ==
    InitState({ [ verbose |-> FALSE, negative_ok |-> FALSE,
                  data_dir |-> NoDataDir ] }, { << >> }, Tapes)

\* The next analyzer name of the command line.
TapeRegister ==
    /\ nreg < Len(tape.classes)
    /\ Register({ tape.classes[nreg + 1] })

TapeRegistered ==
    /\ nreg = Len(tape.classes)
    /\ Registered

\* The next file of the command line, which exists.
TapeParseBegin ==
    /\ nfiles < Len(tape.files)
    /\ ParseBegin({ tape.files[nfiles + 1] })
    /\ pc' = "lines"

\* The next line of the file.
TapeParseLine ==
    /\ pc = "lines"
    /\ lineno < Len(tape.lines[trace])
    /\ ParseLine({ tape.lines[trace][lineno + 1] }, 2 * MaxFiles * MaxTapeLines)

TapeParseEnd ==
    /\ pc = "lines"
    /\ lineno = Len(tape.lines[trace])
    /\ ParseEnd

TapeParsed_All ==
    /\ nfiles = Len(tape.files)
    /\ Parsed_All

\* What a run leaves behind: how it ended, the tables, what it printed and,
\* after a run to the end with the net analyzer, the merged events of
\* every node.
Outcome ==
    [ pc |-> pc, error |-> error, d |-> d, traces |-> traces, rpcs |-> rpcs,
      order |-> order, report |-> report,
      streams |-> IF pc = "done" /\ "AnalyzeNet" \in d.analyzers
                  THEN collect_events(rpcs, order, options)
                  ELSE [ receivers |-> EmptyDict, names |-> << >>,
                         warn |-> << >> ] ]

\* The second run keeping the RPC table of the first in the global rpcs.
Rerun_keeping_rpcs ==
    /\ pc \in { "done", "abort", "exit" }
    /\ before = NotRun
    /\ before' = Outcome
    /\ pc' = "register"
    /\ error' = ""
    /\ nreg' = 0
    /\ d' = NewDispatcher
    /\ traces' = EmptyDict
    /\ nfiles' = 0
    /\ trace' = ""
    /\ first' = TRUE
    /\ lineno' = 0
    /\ nlines' = 0
    /\ lastLine' = NoiseLine
    /\ tried' = << >>
    /\ parsed' = << >>
    /\ invoked' = << >>
    /\ events' = << >>
    /\ inOrder' = TRUE
    /\ nout' = 0
    /\ report' = << >>
    /\ UNCHANGED << options, rpcs, order, tape >>
    /\ UNCHANGED calls

\* The script started again after it ended: the globals and the dispatcher
\* are new, the command line is the same.
Rerun ==
    /\ pc \in { "done", "abort", "exit" }
    /\ before = NotRun
    /\ before' = Outcome
    /\ pc' = "register"
    /\ error' = ""
    /\ nreg' = 0
    /\ d' = NewDispatcher
    /\ traces' = EmptyDict
    /\ rpcs' = EmptyDict
    /\ nfiles' = 0
    /\ trace' = ""
    /\ first' = TRUE
    /\ lineno' = 0
    /\ nlines' = 0
    /\ lastLine' = NoiseLine
    /\ tried' = << >>
    /\ parsed' = << >>
    /\ invoked' = << >>
    /\ events' = << >>
    /\ inOrder' = TRUE
    /\ order' = << >>
    /\ nout' = 0
    /\ report' = << >>
    /\ UNCHANGED << options, tape >>
    /\ UNCHANGED calls

NextTwice ==
    \/ TapeRegister
    \/ TapeRegistered
    \/ TapeParseBegin
    \/ TapeParseLine
    \/ TapeParseEnd
    \/ TapeParsed_All
    \/ Analyze
    \/ Output
    \/ Finished
    \/ Rerun

SpecTwice == InitTwice /\ [][NextTwice]_vars

\* SpecMarkers: the script with --analyzers activity and one trace file of
\* up to MaxMarkerLines lines, the k-th stamped k - 1.  RPC 2 is sent
\* (sendmsg_request for 500 or 1000 bytes, one packet of 500 bytes at offset
\* 0), RPC 3 is received (GRO packets at offsets 0 or 500, a softirq_data
\* packet that tells a message length of 700, recvmsg_done); any line but
\* the two of the transmitted packet may be some other text.
MaxMarkerLines == 8

MarkerLinesAt ==
    LET now == { lineno }
        other == ShapeLines({ NoShape }, now, {0}, Peers, {2}, {0}, {0})
    IN CASE lineno = 0 ->
              other \cup ShapeLines({ "sendmsg_request" }, now, {0}, Peers,
                                    {2}, {0}, {500, 1000})
         [] lineno \in { 1, 5 } ->
              other \cup ShapeLines({ "gro_data" }, now, {0}, Peers, {3},
                                    {0, 500}, {0})
         [] lineno = 2 ->
              other \cup ShapeLines({ "softirq_data" }, now, {0}, Peers,
                                    {3}, {0}, {700})
         [] lineno = 3 ->
              ShapeLines({ "ip_xmit" }, now, {0}, Peers, {2}, {0}, {0})
         [] lineno = 4 ->
              ShapeLines({ "send_data" }, now, {0}, Peers, {2}, {0}, {500})
         [] lineno = 6 ->
              other \cup ShapeLines({ "recvmsg_done" }, now, {0}, Peers,
                                    {3}, {0}, {700})
         [] lineno = 7 -> other
         [] OTHER -> {}

NextMarkers ==
    \/ Register({ "AnalyzeActivity" })
    \/ Registered
    \/ ParseBegin({ "node1" } \ DOMAIN traces)
    \/ ParseLine(MarkerLinesAt, MaxMarkerLines)
    \/ ParseEnd
    \/ Parsed_All
    \/ Analyze
    \/ Output
    \/ Finished

SpecMarkers == InitRpc /\ [][NextMarkers]_vars

\* SpecCopySeq: the script with --analyzers copy and one trace file of up
\* to MaxCopySeqLines lines, each a start or an end of a copy or a release
\* of buffers on one of two cores; the times of the lines never go back.
MaxCopySeqLines == 3

CopySeqLinesAt ==
    LET times == { 2 * lineno, 2 * lineno + 1 }
    IN ShapeLines({ "copy_in_start", "copy_out_start" }, times, {0, 1},
                  Peers, {2}, {0}, {0})
         \cup ShapeLines({ "copy_in_done", "copy_out_done" }, times, {0, 1},
                         Peers, {2}, {0}, {1000, 5000})
         \cup ShapeLines({ "free_skbs" }, times, {0, 1}, Peers, {2}, {0},
                         {1})

NextCopySeq ==
    \/ Register({ "AnalyzeCopy" })
    \/ Registered
    \/ ParseBegin({ "node1" } \ DOMAIN traces)
    \/ ParseLine(CopySeqLinesAt, MaxCopySeqLines)
    \/ ParseEnd
    \/ Parsed_All

SpecCopySeq == InitRpc /\ [][NextCopySeq]_vars

\* SpecBacklog: the script with --analyzers net, with or without --data,
\* and the traces of two nodes, each read once.  node1 sends RPC 2 (a packet
\* at offset 0, then one at offset 500 or 1000) or RPCs 2 and 4; node2
\* receives them as RPCs 3 (on core 0) and 5 (on core 1).  A packet is sent
\* before or after node2 got it, the times of the lines of a trace never go
\* back, and they span several intervals of generate_backlog_data.
MaxBacklogLines == 7

\* The send_data lines for the packets that were given to ip_queue_xmit.
QueuedLines(now) ==
    UNION { ShapeLines({ "send_data" }, { now }, {0}, Peers, { id },
                       DOMAIN rpcs[id]["ip_xmits"], {500}) :
              id \in DOMAIN rpcs }

BacklogLinesAt ==
    LET now == traces[trace]["last_time"]
    IN IF trace = "node1"
       THEN CASE lineno = 0 ->
                   ShapeLines({ "ip_xmit" }, {0, 30}, {0}, Peers, {2}, {0},
                              {0})
              [] lineno = 2 ->
                   ShapeLines({ "ip_xmit" }, { now + 10 }, {0}, Peers, {2},
                              {500, 1000}, {0})
                     \cup ShapeLines({ "ip_xmit" }, { now + 10 }, {0}, Peers,
                                     {4}, {0}, {0})
              [] lineno \in {1, 3} -> QueuedLines(now)
              [] OTHER -> {}
       ELSE CASE lineno = 0 ->
                   ShapeLines({ "gro_data" }, {5, 45}, {0}, Peers, {3}, {0},
                              {0})
              [] lineno \in {1, 2} ->
                   ShapeLines({ "gro_data" }, { now + 1, now + 25 }, {0},
                              Peers, {3}, {500, 1000}, {0})
                     \cup ShapeLines({ "gro_data" }, { now + 1, now + 25 },
                                     {1}, Peers, {5}, {0}, {0})
              [] OTHER -> {}

InitBacklog ==
    InitWith([ verbose : { FALSE }, negative_ok : { FALSE },
               data_dir : { NoDataDir, "data" } ])

NextBacklog ==
    \/ Register({ "AnalyzeNet" })
    \/ Registered
    \/ ParseBegin(FileNames \ DOMAIN traces)
    \/ ParseLine(BacklogLinesAt, MaxBacklogLines)
    \/ ParseEnd
    \/ Parsed_All
    \/ Analyze
    \/ Output
    \/ Finished

SpecBacklog == InitBacklog /\ [][NextBacklog]_vars

\* SpecPacket: the script with --analyzers activity and one trace file of
\* up to MaxPacketLines lines about the received RPC 3: up to four
\* softirq_data packets, whose gaps are 1000, 1300 or 700, then
\* recvmsg_done and a GRO packet, each of the two present or not.
MaxPacketLines == 6

PacketLinesAt ==
    LET now == { lineno }
        other == ShapeLines({ NoShape }, now, {0}, Peers, {3}, {0}, {0})
    IN CASE lineno = 0 ->
              ShapeLines({ "softirq_data" }, now, {0}, Peers, {3}, {0},
                         {5000})
         [] lineno \in { 1, 2, 3 } ->
              ShapeLines({ "softirq_data" }, now, {0}, Peers, {3},
                         { 1000 * lineno, 1000 * lineno + 300 }, {5000})
         [] lineno = 4 ->
              other \cup ShapeLines({ "recvmsg_done" }, now, {0}, Peers,
                                    {3}, {0}, {5000})
         [] lineno = 5 ->
              other \cup ShapeLines({ "gro_data" }, now, {0}, Peers, {3},
                                    {0}, {0})
         [] OTHER -> {}

NextPacket ==
    \/ Register({ "AnalyzeActivity" })
    \/ Registered
    \/ ParseBegin({ "node1" } \ DOMAIN traces)
    \/ ParseLine(PacketLinesAt, MaxPacketLines)
    \/ ParseEnd
    \/ Parsed_All
    \/ Analyze
    \/ Output
    \/ Finished

SpecPacket == InitRpc /\ [][NextPacket]_vars

\* ------------------------------------------------------------------ claims

\* The place of a pattern in the table.
Pos(p) == CHOOSE i \in 1 .. Len(patterns) : patterns[i] = p

\* The last line read from the current file had an envelope and a time.
HasEnvelope == lineno >= 1 /\ lastLine.env = "ok" /\ lastLine.tconv

\* The patterns with a subscriber whose regexp matches the last line.
Candidates ==
    { p \in PatternNames : Has(d.interests, p) /\ Matches(p, lastLine) }

IsPrefix(a, b) == Len(a) <= Len(b) /\ a = SubSeq(b, 1, Len(a))

NoDuplicates(a) == \A i, j \in 1 .. Len(a) : a[i] = a[j] => i = j

\* C1: for a line with an envelope at most one parser is called; it is the
\* parser of the first pattern, in table order, among the patterns with a
\* subscriber that match the message, and no pattern after it is tried.
C1_FirstMatchWins ==
    HasEnvelope =>
      /\ Len(parsed) <= 1
      /\ Candidates = {} => parsed = << >>
      /\ Candidates # {} =>
           /\ Len(parsed) = 1
           /\ parsed[1] \in Candidates
           /\ \A q \in Candidates : Pos(parsed[1]) <= Pos(q)
      /\ \A i \in 1 .. Len(tried) :
           /\ Has(d.interests, tried[i])
           /\ i > 1 => Pos(tried[i - 1]) < Pos(tried[i])
      /\ parsed # << >> =>
           /\ tried # << >>
           /\ tried[Len(tried)] = parsed[1]

\* C1's case: a line matched a pattern that is neither the first nor the
\* last of the active list.
C1_Witness ==
    /\ HasEnvelope
    /\ parsed = << "send_data" >>
    /\ Len(tried) >= 2
    /\ Len(tried) < Len(d.active)

C3_TimeOrder ==
    \A i, j \in 1 .. Len(events) :
      i < j => /\ events[i][1] < events[j][1]
               /\ events[i][2] <= events[j][2]

\* C3, amended: of two events delivered from one file, the later one comes
\* from a later line; its time is not smaller if the times of the lines of
\* the file are in non-decreasing order (parse neither sorts nor checks).
C3_FileOrder ==
    \A i, j \in 1 .. Len(events) :
      i < j => /\ events[i][1] < events[j][1]
               /\ inOrder => events[i][2] <= events[j][2]

\* C3's case: two events with different times were delivered from a file
\* whose lines are in time order.
C3_Witness ==
    /\ Len(events) = 2
    /\ inOrder
    /\ events[1][2] < events[2][2]

C5_EveryFileFinalized ==
    /\ (pc \in { "files", "analyze" } /\ nfiles >= 1) =>
         /\ Has(traces[trace], "elapsed_time")
         /\ traces[trace]["elapsed_time"] =
              traces[trace]["last_time"] - traces[trace]["first_time"]
    /\ pc = "abort" => error # "KeyError"

\* The classes with a tt_ method for which the table has no pattern.
Unresolvable ==
    { c \in Classes :
        \E i \in 1 .. Len(Methods(c)) : Methods(c)[i] \notin PatternNames }

\* C6: once an analyzer with a handler for an unknown pattern name is
\* registered the run has ended with the exception of interest, in the
\* registration loop: no file was opened, no line parsed, no later step run.
C6_UnknownShapeFatal ==
    (d.analyzers \cap Unresolvable # {}) =>
      /\ pc = "abort"
      /\ error = "Exception"
      /\ nfiles = 0
      /\ nlines = 0
      /\ traces = EmptyDict
      /\ rpcs = EmptyDict

\* C6's case: the analyzer was registered after AnalyzeRpc.
C6_Witness ==
    /\ d.objs = << "AnalyzeRpc", OtherClass >>
    /\ pc = "abort"

\* The elements of a sequence.
Range(a) == { a[i] : i \in 1 .. Len(a) }

\* A step that read a line which was handed to AnalyzeRpc.
RpcEvent ==
    /\ lineno' = lineno + 1
    /\ "AnalyzeRpc" \in Range(invoked')

\* The fields of an RPC record that are lists, and those that are maps.
ListFields ==
    { "gro_data", "gro_grant", "softirq_data", "softirq_grant", "send_data",
      "send_grant" }
MapFields == { "ip_xmits", "resends", "retransmits" }

\* C7 as stated: after AnalyzeRpc handled an event of any type that carries
\* an RPC id, for an id that was not in the table, the table has a record
\* for the id.
C7_RecordOnFirstEvent ==
    [][ (RpcEvent /\ lastLine'.shape \in UsesId
           /\ ~Has(rpcs, lastLine'.id)) =>
          Has(rpcs', lastLine'.id) ]_vars

\* C7, amended: after AnalyzeRpc handled an event of any type that carries
\* an RPC id, other than send_data, for an id that was not in the table, the
\* table has a record for the id, owned by the trace being read; a send_data
\* event for such an id is dropped and the table stays as it is.
C7_RecordOnFirstEventButSendData ==
    [][ (RpcEvent /\ lastLine'.shape \in UsesId
           /\ ~Has(rpcs, lastLine'.id)) =>
          IF lastLine'.shape = "send_data"
          THEN rpcs' = rpcs
          ELSE /\ Has(rpcs', lastLine'.id)
               /\ rpcs'[lastLine'.id]["name"] = trace
               /\ DOMAIN rpcs' = DOMAIN rpcs \cup { lastLine'.id } ]_vars

\* C7's case: the first event of a run, a recvmsg_done, created the record.
C7_Witness ==
    /\ nlines = 1
    /\ lineno = 1
    /\ lastLine.shape = "recvmsg_done"
    /\ invoked = << "AnalyzeRpc" >>
    /\ Has(rpcs, lastLine.id)

\* A field value that holds something.
Populated(field, value) ==
    IF field \in ListFields THEN value # << >>
    ELSE IF field \in MapFields THEN DOMAIN value # {}
    ELSE TRUE

\* What C8 says of one field of a record over one step.
FieldKept(old, new, field) ==
    /\ Has(new, field)
    /\ Populated(field, old[field]) => Populated(field, new[field])
    /\ field \in ListFields => Len(new[field]) >= Len(old[field])
    /\ field = "name" => new[field] = old[field]

\* C8 as stated: no record is deleted or initialized again, a populated
\* field is never removed or emptied, lists never shrink and the owning
\* trace name stays.
C8_Monotonic ==
    [][ \A id \in DOMAIN rpcs :
          /\ Has(rpcs', id)
          /\ \A field \in DOMAIN rpcs[id] :
               FieldKept(rpcs[id], rpcs'[id], field) ]_vars

\* C8, amended: as stated for every field but ip_xmits; the keys of resends
\* and retransmits are never removed; ip_xmits loses a key only when a
\* send_data event of non-zero length for that offset appends the packet to
\* send_data.
C8_MonotonicButIpXmits ==
    [][ \A id \in DOMAIN rpcs :
          /\ Has(rpcs', id)
          /\ \A field \in DOMAIN rpcs[id] \ { "ip_xmits" } :
               /\ FieldKept(rpcs[id], rpcs'[id], field)
               /\ field \in MapFields =>
                    DOMAIN rpcs[id][field] \subseteq DOMAIN rpcs'[id][field]
          /\ Has(rpcs'[id], "ip_xmits")
          /\ LET gone == DOMAIN rpcs[id]["ip_xmits"]
                           \ DOMAIN rpcs'[id]["ip_xmits"]
             IN gone # {} =>
                  /\ gone = { lastLine'.offset }
                  /\ RpcEvent
                  /\ lastLine'.shape = "send_data"
                  /\ lastLine'.len # 0
                  /\ lastLine'.id = id
                  /\ Len(rpcs'[id]["send_data"])
                       = Len(rpcs[id]["send_data"]) + 1 ]_vars

\* C8's case: a record created by a sendmsg_request of one trace was
\* extended by a gro_data event of another trace.
C8_Witness ==
    /\ Has(rpcs, 2)
    /\ rpcs[2]["name"] # trace
    /\ Has(rpcs[2], "sendmsg")
    /\ Len(rpcs[2]["gro_data"]) = 1
    /\ lastLine.shape = "gro_data"

\* The pending ip_xmit times of an RPC, {} when it has no record.
Pending(table, id) ==
    IF Has(table, id) THEN table[id]["ip_xmits"] ELSE EmptyDict

\* The send_data list of an RPC, << >> when it has no record.
SendData(table, id) ==
    IF Has(table, id) THEN table[id]["send_data"] ELSE << >>

\* C9: an ip_xmit event stores its time under its offset, replacing an
\* older one; a send_data event of non-zero length for an offset with a
\* pending time appends << pending time, offset, length >> to send_data and
\* removes the pending time; one without a pending time changes nothing, so
\* a pending time is consumed at most once.
C9_Reconciliation ==
    [][ RpcEvent =>
          LET id  == lastLine'.id
              off == lastLine'.offset
          IN /\ lastLine'.shape = "ip_xmit" =>
                  /\ Pending(rpcs', id) = Put(Pending(rpcs, id), off,
                                               lastLine'.time)
                  /\ SendData(rpcs', id) = SendData(rpcs, id)
             /\ (lastLine'.shape = "send_data"
                   /\ Has(Pending(rpcs, id), off)) =>
                  /\ SendData(rpcs', id) =
                       Append(SendData(rpcs, id),
                              << Pending(rpcs, id)[off], off, lastLine'.len >>)
                  /\ Pending(rpcs', id) = Del(Pending(rpcs, id), off)
             /\ (lastLine'.shape = "send_data"
                   /\ ~Has(Pending(rpcs, id), off)) =>
                  rpcs' = rpcs ]_vars

\* C9's case: a send_data event at time 2 consumed a pending time 1 that had
\* replaced a pending time 0.
C9_Witness ==
    /\ nlines = 3
    /\ lastLine.shape = "send_data"
    /\ lastLine.time = 2
    /\ Has(rpcs, 2)
    /\ rpcs[2]["send_data"] = << << 1, 0, 1 >> >>
    /\ ~Has(rpcs[2]["ip_xmits"], 0)

\* C10: a send_data line of length 0 is taken by the parser of send_data and
\* handed to no analyzer: the RPC table, with the pending ip_xmit times,
\* stays as it is, and no pattern after send_data is tried.
C10_ZeroLengthDiscarded ==
    [][ (lineno' = lineno + 1 /\ EnvelopeMatch(lastLine') /\ lastLine'.tconv
           /\ lastLine'.shape = "send_data" /\ lastLine'.len = 0
           /\ Has(d.interests, "send_data")) =>
          /\ parsed' = << "send_data" >>
          /\ tried'[Len(tried')] = "send_data"
          /\ invoked' = << >>
          /\ rpcs' = rpcs
          /\ pc' = "lines" ]_vars

\* C10's case: the line came while a time was pending for its offset.
C10_Witness ==
    /\ lineno >= 2
    /\ lastLine.shape = "send_data"
    /\ lastLine.len = 0
    /\ parsed = << "send_data" >>
    /\ Has(rpcs, lastLine.id)
    /\ Has(rpcs[lastLine.id]["ip_xmits"], lastLine.offset)

\* C11: an event that carries id i changes at most the record of i: the
\* record of i XOR 1 and every other record stay as they are, and no record
\* but that of i is created.
C11_CounterpartUntouched ==
    [][ RpcEvent =>
          /\ DOMAIN rpcs \subseteq DOMAIN rpcs'
          /\ DOMAIN rpcs' \subseteq DOMAIN rpcs \cup { lastLine'.id }
          /\ \A j \in DOMAIN rpcs \ { lastLine'.id } : rpcs'[j] = rpcs[j] ]_vars

\* C11's case: an event for id 3 came while id 2 had a record with data,
\* and both records are in the table.
C11_Witness ==
    /\ nlines = 2
    /\ lastLine.id = 3
    /\ lastLine.shape = "softirq_grant"
    /\ Has(rpcs, 2)
    /\ Has(rpcs, 3)
    /\ rpcs[2]["gro_data"] # << >>
    /\ rpcs[3]["softirq_grant"] # << >>

\* The analyzer whose output method ran last.
LastOutput == IF nout = 0 THEN "" ELSE d.objs[nout]

\* The number of starts less the number of ends among the first i markers.
CountAfter(markers, i) ==
    Cardinality({ j \in 1 .. i : markers[j][2] = "start" })
      - Cardinality({ j \in 1 .. i : markers[j][2] # "start" })

\* The sum of weight(i) * (time from marker i to marker i + 1) over the
\* markers from i on.
RECURSIVE Weighted(_, _, _)
Weighted(markers, weight(_), i) ==
    IF i >= Len(markers) THEN 0
    ELSE weight(i) * (markers[i + 1][1] - markers[i][1])
           + Weighted(markers, weight, i + 1)

\* C12 as stated: a row of the activity report has the number of starts of
\* its markers, the time during which the count of active messages was
\* above 0 and the time integral of that count, each over the span from the
\* first to the last marker.
C12_SweepLine ==
    \A r \in Range(report) :
      r.analyzer = "activity" =>
        LET positive(i) == IF CountAfter(r.events, i) > 0 THEN 1 ELSE 0
            count(i) == CountAfter(r.events, i)
        IN /\ r.msgs = CountAfter(r.events, Len(r.events))
                         + Cardinality({ j \in DOMAIN r.events :
                                           r.events[j][2] # "start" })
           /\ r.total_time = r.events[Len(r.events)][1] - r.events[1][1]
           /\ r.active_time = Weighted(r.events, positive, 1)
           /\ r.active_integral = Weighted(r.events, count, 1)

\* The markers the output method collects for a node.
MarkersOf(node, dir) ==
    LET evs == node_events(rpcs, order, 1, traces, node,
                           [ in_events |-> << >>, in_bytes |-> 0,
                             out_events |-> << >>, out_bytes |-> 0 ])
    IN SortByKey(IF dir = "in" THEN evs.in_events ELSE evs.out_events, 1)

\* A list of markers with nothing to compute from: empty, or all at one time.
NoData(markers) ==
    markers = << >> \/ markers[1][1] = markers[Len(markers)][1]

\* C13 as stated: when the report of the activity analyzer meets a node and
\* direction with no markers or with markers of one time only (every trace
\* covering some time), the run does not abort.
C13_NoDataReported ==
    (/\ LastOutput = "AnalyzeActivity"
     /\ \A node \in DOMAIN traces : traces[node]["elapsed_time"] # 0
     /\ \E node \in DOMAIN traces, dir \in { "in", "out" } :
          NoData(MarkersOf(node, dir)))
      => pc # "abort"

\* A step that read a line of the given shape which was handed to
\* AnalyzeCopy.
CopyEvent(shape) ==
    /\ lineno' = lineno + 1
    /\ lastLine'.shape = shape
    /\ "AnalyzeCopy" \in Range(invoked')

Stream(name) ==
    LET receivers == collect_events(rpcs, order, options).receivers
    IN IF Has(receivers, name) THEN receivers[name] ELSE << >>

Recvs(name) == SelectSeq(Stream(name), LAMBDA e : e[2] = "recv")

\* The ids of the senders whose receiver has a record too.
Senders == { i \in DOMAIN rpcs : Has(rpcs, Counterpart(i)) }

\* The packets of a sender in the order of their offsets.
XmitPkts(i) == SortByKey(rpcs[i]["send_data"], 2)

\* Whether an offset lies in a packet << time, offset, length >>.
Holds(pkt, offset) == pkt[2] <= offset /\ offset < pkt[2] + pkt[3]

\* The sum of f over a finite set.
RECURSIVE SumOver(_, _)
SumOver(f(_), set) ==
    IF set = {} THEN 0
    ELSE LET x == CHOOSE y \in set : TRUE
         IN f(x) + SumOver(f, set \ { x })

\* C15: when neither the receiver's resends nor the sender's retransmits
\* hold an offset, the sender's packets follow one another without a gap
\* and every GRO packet of the receiver starts inside one of them, the
\* stream of the receiver has one receive event for every GRO packet, with
\* delay = time of the GRO packet - time of the sender's packet that holds
\* its offset; the packets (0,0,500), (1,500,500) received at (2,0), (3,500)
\* give the delays 2 and 2.
C15_Delays ==
    LastOutput = "AnalyzeNet" =>
      \A i \in Senders :
        LET j == Counterpart(i)
            xs == XmitPkts(i)
            gs == rpcs[j]["gro_data"]
            sent(offset) ==
                xs[CHOOSE p \in DOMAIN xs : Holds(xs[p], offset)][1]
            recvs == Recvs(rpcs[j]["name"])
        IN (/\ DOMAIN rpcs[j]["resends"] = {}
            /\ DOMAIN rpcs[i]["retransmits"] = {}
            /\ xs # << >>
            /\ \A p \in 1 .. Len(xs) - 1 : xs[p + 1][2] = xs[p][2] + xs[p][3]
            /\ \A k \in DOMAIN gs : \E p \in DOMAIN xs : Holds(xs[p], gs[k][2]))
           => /\ Len(recvs) = Len(gs)
              /\ { << recvs[k][1], recvs[k][5] >> : k \in DOMAIN recvs }
                   = { << gs[k][1], gs[k][1] - sent(gs[k][2]) >> :
                         k \in DOMAIN gs }
              /\ (xs = << << 0, 0, 500 >>, << 1, 500, 500 >> >>
                    /\ gs = << << 2, 0 >>, << 3, 500 >> >>)
                 => [ k \in DOMAIN recvs |-> recvs[k][5] ] = << 2, 2 >>

\* C15's case: the report was made for the two packets of the example.
C15_Witness ==
    /\ LastOutput = "AnalyzeNet"
    /\ Has(rpcs, 2)
    /\ Has(rpcs, 3)
    /\ rpcs[2]["send_data"] = << << 0, 0, 500 >>, << 1, 500, 500 >> >>
    /\ rpcs[3]["gro_data"] = << << 2, 0 >>, << 3, 500 >> >>
    /\ Recvs("node2") = << << 2, "recv", 500, 0, 2 >>,
                           << 3, "recv", 500, 0, 2 >> >>

\* C16: a GRO packet whose offset is below the offset of the sender's first
\* packet, or is a key of the receiver's resends or of the sender's
\* retransmits, has no receive event and adds to the bytes of no transmit
\* event (the bytes of a transmit event are those of the receive events of
\* its packet); every other GRO packet that starts inside a packet of the
\* sender has exactly one receive event.
C16_Exclusions ==
    LastOutput = "AnalyzeNet" =>
      \A i \in Senders :
        LET j == Counterpart(i)
            xs == XmitPkts(i)
            gs == rpcs[j]["gro_data"]
            stream == Stream(rpcs[j]["name"])
            excluded(k) ==
                \/ xs # << >> /\ gs[k][2] < xs[1][2]
                \/ gs[k][2] \in DOMAIN rpcs[j]["resends"]
                \/ gs[k][2] \in DOMAIN rpcs[i]["retransmits"]
            inside(k) == \E p \in DOMAIN xs : Holds(xs[p], gs[k][2])
            at(t) == { e \in DOMAIN stream :
                             stream[e][2] = "recv" /\ stream[e][1] = t }
            sure(t) == { k \in DOMAIN gs :
                           gs[k][1] = t /\ ~excluded(k) /\ inside(k) }
            free(t) == { k \in DOMAIN gs :
                           gs[k][1] = t /\ ~excluded(k) /\ ~inside(k) }
            bytes(e) == stream[e][3]
        IN /\ \A t \in { gs[k][1] : k \in DOMAIN gs } :
                /\ Cardinality(at(t)) >= Cardinality(sure(t))
                /\ Cardinality(at(t))
                     <= Cardinality(sure(t)) + Cardinality(free(t))
           /\ \A e \in DOMAIN stream :
                stream[e][2] = "recv" =>
                  \E k \in DOMAIN gs : gs[k][1] = stream[e][1]
           /\ \A x \in DOMAIN stream :
                stream[x][2] = "xmit" =>
                  stream[x][3] =
                    SumOver(bytes,
                            { e \in DOMAIN stream :
                                /\ stream[e][2] = "recv"
                                /\ stream[e][1] - stream[e][5]
                                     = stream[x][1] })

\* C16's case: of two GRO packets inside the sender's packets the one at
\* offset 500 was asked for again with a RESEND: the other alone has a
\* receive event.
C16_Witness ==
    /\ LastOutput = "AnalyzeNet"
    /\ Has(rpcs, 2)
    /\ Has(rpcs, 3)
    /\ rpcs[2]["send_data"] = << << 0, 0, 500 >>, << 1, 500, 500 >> >>
    /\ rpcs[3]["gro_data"] = << << 2, 0 >>, << 3, 500 >> >>
    /\ DOMAIN rpcs[3]["resends"] = { 500 }
    /\ Len(Recvs("node2")) = 1
    /\ Recvs("node2")[1][1] = 2

\* The traces all cover some time.
TimeElapsed == \A name \in DOMAIN traces : traces[name]["elapsed_time"] # 0

\* The receive events of all streams that came before they were sent.
Negative ==
    UNION { { e \in Range(Recvs(name)) : e[5] < 0 } : name \in DOMAIN traces }

\* Whether the k-th GRO packet of the receiver of sender i is left out of
\* the statistics.
Excluded(i, k) ==
    LET j == Counterpart(i)
        offset == rpcs[j]["gro_data"][k][2]
    IN \/ XmitPkts(i) # << >> /\ offset < XmitPkts(i)[1][2]
       \/ offset \in DOMAIN rpcs[j]["resends"]
       \/ offset \in DOMAIN rpcs[i]["retransmits"]

\* The GRO packets of the receiver of sender i that were stamped before
\* every packet of the sender that holds their offset.
Early(i) ==
    LET xs == XmitPkts(i)
        gs == rpcs[Counterpart(i)]["gro_data"]
    IN { k \in DOMAIN gs :
           /\ ~Excluded(i, k)
           /\ \E p \in DOMAIN xs : Holds(xs[p], gs[k][2])
           /\ \A p \in DOMAIN xs :
                Holds(xs[p], gs[k][2]) => gs[k][1] < xs[p][1] }

\* What collect_events does with a packet received before it was sent: the
\* warning is printed iff --negative-ok is not set, and the receive event
\* is in the stream with its negative delay.
NegativeDelayKept ==
    /\ options.negative_ok
         <=> ~\E r \in Range(report) : r.analyzer = "net" /\ r.kind = "warning"
    /\ \A i \in Senders :
         \A k \in Early(i) :
           \E e \in Range(Recvs(rpcs[Counterpart(i)]["name"])) :
             e[1] = rpcs[Counterpart(i)]["gro_data"][k][1] /\ e[5] < 0

\* C17 as stated: a packet received before it was sent does not end the
\* run: a warning is printed for it iff --negative-ok is not set, its
\* receive event stays in the stream and the analysis goes on.
C17_NegativeDelayNotFatal ==
    (LastOutput = "AnalyzeNet" /\ TimeElapsed /\ Negative # {}) =>
      /\ NegativeDelayKept
      /\ pc # "abort"

\* The largest element of a non-empty set of numbers.
Largest(set) == CHOOSE x \in set : \A y \in set : x >= y

\* C18 as stated: for every core with a receive event in the stream of a
\* node the report has the number of its receive events, their mean delay
\* (here the sum), the largest of their delays and the time of a receive
\* event with that delay.
C18_CoreSummary ==
    (LastOutput = "AnalyzeNet" /\ TimeElapsed) =>
      \A name \in DOMAIN traces :
        \A core \in { e[4] : e \in Range(Recvs(name)) } :
          LET mine == { k \in DOMAIN Recvs(name) : Recvs(name)[k][4] = core }
              delay(k) == Recvs(name)[k][5]
              worst == Largest({ delay(k) : k \in mine })
          IN \E r \in Range(report) :
               /\ r.analyzer = "net" /\ r.kind = "core"
               /\ r.node = name /\ r.core = core
               /\ r.num_packets = Cardinality(mine)
               /\ r.delay_sum = SumOver(delay, mine)
               /\ r.max_delay = worst
               /\ \E k \in mine : /\ delay(k) = worst
                                  /\ Recvs(name)[k][1] = r.max_delay_time

\* The completeness tests in the words of the specification: a client RPC
\* (even id) needs sendmsg and recvmsg_done, a server RPC (odd id) GRO data
\* that start at offset 0 and data sent.
Incomplete(id) ==
    IF id % 2 = 0
    THEN ~Has(rpcs[id], "sendmsg") \/ ~Has(rpcs[id], "recvmsg_done")
    ELSE \/ rpcs[id]["gro_data"] = << >>
         \/ rpcs[id]["gro_data"][1][2] # 0
         \/ rpcs[id]["send_data"] = << >>

\* The complete RPCs of a role (0 for clients, 1 for servers) in the order
\* of the table.
Complete(role) ==
    SelectSeq(order, LAMBDA id : id % 2 = role /\ ~Incomplete(id))

\* The lists and counts the loop of AnalyzeTimeline.output ends with.
Timeline == timeline_rpcs(rpcs, order, 1, no_stats)

\* C19: an incomplete RPC adds no sample to any list and is not counted: the
\* lists and the counts are those of the complete RPCs alone, the counts
\* are the numbers of complete RPCs, no list has more samples than its
\* role has complete RPCs, and the counts printed are those.
C19_Filter ==
    LastOutput = "AnalyzeTimeline" =>
      /\ Timeline = timeline_rpcs(rpcs, Complete(0) \o Complete(1), 1,
                                  no_stats)
      /\ Timeline.error = "" =>
           /\ Timeline.num_client_rpcs = Len(Complete(0))
           /\ Timeline.num_server_rpcs = Len(Complete(1))
           /\ \A lists \in { Timeline.client_totals, Timeline.client_deltas,
                             Timeline.client_extra_totals,
                             Timeline.client_extra_deltas } :
                \A i \in DOMAIN lists : Len(lists[i]) <= Len(Complete(0))
           /\ \A lists \in { Timeline.server_totals, Timeline.server_deltas,
                             Timeline.server_extra_totals,
                             Timeline.server_extra_deltas } :
                \A i \in DOMAIN lists : Len(lists[i]) <= Len(Complete(1))
           /\ \A r \in Range(report) :
                /\ r.kind = "rpcs" =>
                     r.rpcs = Len(Complete(IF r.role = "client" THEN 0 ELSE 1))
                /\ r.kind = "phase" =>
                     r.events
                       <= Len(Complete(IF r.role = "client" THEN 0 ELSE 1))

\* C19's case: the timeline was printed for a table with a complete RPC
\* and an incomplete one that has events of its own.
C19_Witness ==
    /\ LastOutput = "AnalyzeTimeline"
    /\ pc # "abort"
    /\ report # << >>
    /\ \E id \in DOMAIN rpcs : ~Incomplete(id)
    /\ \E id \in DOMAIN rpcs :
         /\ Incomplete(id)
         /\ \/ Has(rpcs[id], "sendmsg")
            \/ Has(rpcs[id], "recvmsg_done")
            \/ rpcs[id]["gro_data"] # << >>
            \/ rpcs[id]["send_data"] # << >>

\* Whether an RPC has the element of a phase, and has something in it.
PhasePresent(rpc, phase) ==
    /\ Has(rpc, phase.name)
    /\ phase.at = "value" \/ rpc[phase.name] # << >>

\* The time that stands for a phase of an RPC: the time of the element, or
\* of the first or of the last entry of its list.
PhaseTs(rpc, phase) ==
    CASE phase.at = "value" -> rpc[phase.name]
      [] phase.at = "last" -> rpc[phase.name][Len(rpc[phase.name])][1]
      [] OTHER -> rpc[phase.name][1][1]

\* The nearest phase before the i-th that an RPC has (the i-th itself for
\* the first phase).
Before(rpc, phases, i) ==
    IF \E j \in 1 .. i - 1 : PhasePresent(rpc, phases[j])
    THEN Largest({ j \in 1 .. i - 1 : PhasePresent(rpc, phases[j]) })
    ELSE i

\* The samples the phases of a table should have for the RPCs ids: for
\* every phase one sample per RPC that has the phase, the time of the phase
\* less the time of phase `from` of the RPC.
Samples(phases, ids, from(_, _)) ==
    IF ids = << >> THEN << >>
    ELSE [ i \in DOMAIN phases |->
             LET with == SelectSeq(ids, LAMBDA id :
                                     PhasePresent(rpcs[id], phases[i]))
             IN [ k \in DOMAIN with |->
                    PhaseTs(rpcs[with[k]], phases[i])
                      - PhaseTs(rpcs[with[k]],
                                phases[from(rpcs[with[k]], i)]) ] ]

\* C20 as stated: the lists have, for every complete RPC and every phase of
\* the tables of its role that the RPC has, one sample with the time since
\* phase 0 and the time since the nearest earlier phase the RPC has, and
\* nothing else; the gaps of an RPC add up to the time since phase 0 of its
\* last phase.
C20_PhaseSamples ==
    LastOutput = "AnalyzeTimeline" =>
      LET start(rpc, i) == 1
          before_client(rpc, i) == Before(rpc, client_phases, i)
          before_client_extra(rpc, i) == Before(rpc, client_extra, i)
          before_server(rpc, i) == Before(rpc, server_phases, i)
          before_server_extra(rpc, i) == Before(rpc, server_extra, i)
      IN /\ pc # "abort"
         /\ Timeline.client_totals
              = Samples(client_phases, Complete(0), start)
         /\ Timeline.client_deltas
              = Samples(client_phases, Complete(0), before_client)
         /\ Timeline.client_extra_totals
              = Samples(client_extra, Complete(0), start)
         /\ Timeline.client_extra_deltas
              = Samples(client_extra, Complete(0), before_client_extra)
         /\ Timeline.server_totals
              = Samples(server_phases, Complete(1), start)
         /\ Timeline.server_deltas
              = Samples(server_phases, Complete(1), before_server)
         /\ Timeline.server_extra_totals
              = Samples(server_extra, Complete(1), start)
         /\ Timeline.server_extra_deltas
              = Samples(server_extra, Complete(1), before_server_extra)
         /\ \A id \in Range(Complete(0)) :
              LET has == { i \in DOMAIN client_phases :
                             PhasePresent(rpcs[id], client_phases[i]) }
                  gap(i) == PhaseTs(rpcs[id], client_phases[i])
                              - PhaseTs(rpcs[id],
                                  client_phases[before_client(rpcs[id], i)])
              IN SumOver(gap, has)
                   = PhaseTs(rpcs[id], client_phases[Largest(has)])
                       - PhaseTs(rpcs[id], client_phases[1])
         /\ \A id \in Range(Complete(1)) :
              LET has == { i \in DOMAIN server_phases :
                             PhasePresent(rpcs[id], server_phases[i]) }
                  gap(i) == PhaseTs(rpcs[id], server_phases[i])
                              - PhaseTs(rpcs[id],
                                  server_phases[before_server(rpcs[id], i)])
              IN SumOver(gap, has)
                   = PhaseTs(rpcs[id], server_phases[Largest(has)])
                       - PhaseTs(rpcs[id], server_phases[1])

\* The number of samples below v, and of samples not above v.
Below(v) == Cardinality({ i \in 1 .. Len(samples) : samples[i] < v })

UpTo(v) == Cardinality({ i \in 1 .. Len(samples) : samples[i] <= v })

\* v is the element at index k, counted from 0, of the samples in rising
\* order.
IsAt(k, v) == Below(v) <= k /\ k < UpTo(v)

\* C21: the timeline report prints "no events" for a phase without samples
\* and computes no average or percentile for it; for a phase with n >= 1
\* samples the index floor(9n/10) is below n, the line carries the element at
\* that index of the sorted samples, and the step ends without a division by
\* zero or an index out of range.
C21_PhaseLine ==
    stats.call = "print_phases" =>
        /\ stats.result.error = ""
        /\ Len(stats.result.rows) = 1
        /\ samples = << >> <=> stats.result.rows[1].kind = "no events"
        /\ samples = << >> =>
             DOMAIN stats.result.rows[1] =
                 { "analyzer", "kind", "role", "table", "label" }
        /\ samples # << >> =>
             /\ (9 * Len(samples)) \div 10 < Len(samples)
             /\ stats.result.rows[1].kind = "phase"
             /\ stats.result.rows[1].events = Len(samples)
             /\ IsAt((9 * Len(samples)) \div 10,
                     stats.result.rows[1].elapsed_p90)
             /\ IsAt((9 * Len(samples)) \div 10,
                     stats.result.rows[1].gaps_p90)

C21_Witness ==
    /\ stats.call = "print_phases"
    /\ Len(samples) = 10
    /\ stats.result.rows[1].elapsed_p90 = 10

\* C22: get_time_stats returns "no data" for an empty list; for n >= 1
\* samples the indexes floor(p*n/100) for p = 50, 90 and 99 are below n and
\* the result carries the elements at these indexes of the sorted samples;
\* for the samples 1 to 100 P50 is 51 and P99 is 100.
C22_TimeStats ==
    stats.call = "get_time_stats" =>
        /\ samples = << >> <=> stats.result = no_data
        /\ samples # << >> =>
             /\ \A p \in { 50, 90, 99 } :
                    (p * Len(samples)) \div 100 < Len(samples)
             /\ stats.result.text = "stats"
             /\ IsAt((50 * Len(samples)) \div 100, stats.result.p50)
             /\ IsAt((90 * Len(samples)) \div 100, stats.result.p90)
             /\ IsAt((99 * Len(samples)) \div 100, stats.result.p99)
        /\ Range(samples) = 1 .. 100 /\ Len(samples) = 100 =>
             stats.result.p50 = 51 /\ stats.result.p99 = 100

C22_Witness ==
    /\ stats.call = "get_time_stats"
    /\ samples = OneToHundred
    /\ stats.result.p50 = 51
    /\ stats.result.p99 = 100

\* Every file whose parsing began was parsed to its end.
AllParsed == \A name \in DOMAIN traces : Has(traces[name], "elapsed_time")

\* C23: an output step is only taken after the loop over the analyze
\* methods, which is only taken after the last file was parsed to its end,
\* and nothing is parsed from then on; a file is only begun when every file
\* before it was parsed to its end, and the lines of a file only change its
\* own trace.
C23_RunOrder ==
    [][ /\ (nout' # nout \/ report' # report) =>
             pc = "output" /\ AllParsed /\ nfiles >= 1
        /\ pc = "analyze" => nout = 0 /\ report = << >> /\ AllParsed
        /\ pc \in { "analyze", "output", "done" } =>
             /\ UNCHANGED << d, traces, rpcs, nfiles, trace, lineno, nlines >>
             /\ pc' # "analyze"
        /\ nfiles' # nfiles =>
             pc = "files" /\ nfiles' = nfiles + 1 /\ AllParsed
        /\ pc = "lines" =>
             /\ trace' = trace
             /\ \A name \in DOMAIN traces \ { trace } :
                    traces'[name] = traces[name]
      ]_vars

C23_Witness ==
    /\ pc = "output"
    /\ nfiles = 2
    /\ DOMAIN traces = FileNames
    /\ nout = 2
    /\ report # << >>
    /\ rpcs # EmptyDict

\* Two events of the merged events of a node have the same time.
TiedEvents(stream) ==
    \E i, j \in 1 .. Len(stream) : i < j /\ stream[i][1] = stream[j][1]

C25_FailsBeforeParsing ==
    (pc = "exit" \/ (pc = "abort" /\ error = "FileNotFoundError")) =>
        /\ traces = EmptyDict
        /\ rpcs = EmptyDict
        /\ nlines = 0
        /\ invoked = << >>

\* No element is twice in the list.
NoDup(list) == \A i, j \in 1 .. Len(list) : list[i] = list[j] => i = j

\* The shapes whose AnalyzeRpc handler appends one element to the list of
\* the same name.
AppendShapes ==
    { "gro_data", "gro_grant", "softirq_data", "softirq_grant", "send_grant" }

\* The length of a list of an RPC, 0 when the RPC or the list is missing.
ListLen(table, id, name) ==
    IF Has(table, id) /\ Has(table[id], name) THEN Len(table[id][name]) ELSE 0

\* C26: however often a class is registered, the analyzer list holds every
\* registered class once, the subscriber list of every shape holds no class
\* twice, no handler is called twice for a line, and a line whose handler
\* in AnalyzeRpc appends to a list makes that list one element longer.
C26_OneInstance ==
    [][ /\ NoDup(d'.objs)
        /\ Range(d'.objs) = d'.analyzers
        /\ \A name \in DOMAIN d'.interests : NoDup(d'.interests[name])
        /\ lineno' = lineno + 1 => NoDup(invoked')
        /\ ( /\ lineno' = lineno + 1
             /\ "AnalyzeRpc" \in d.analyzers
             /\ lastLine'.env = "ok" /\ lastLine'.tconv /\ lastLine'.conv
             /\ lastLine'.shape \in AppendShapes
             /\ error' = "" ) =>
               ListLen(rpcs', lastLine'.id, lastLine'.shape) =
                 ListLen(rpcs, lastLine'.id, lastLine'.shape) + 1
      ]_vars

C26_Witness ==
    /\ nreg = 2
    /\ d.objs = << "AnalyzeRpc", "AnalyzeActivity" >>
    /\ lineno = 1
    /\ lastLine.shape = "gro_data"
    /\ Len(invoked) = 1
    /\ ListLen(rpcs, lastLine.id, "gro_data") = 1

\* The active list of a dispatcher is the shapes with a subscriber, in the
\* order of the pattern table (so each once).
ActiveOk(dd) ==
    /\ ~dd.activeNone
    /\ Range(dd.active) =
         { p \in PatternNames :
             Has(dd.interests, p) /\ dd.interests[p] # << >> }
    /\ \A i \in 1 .. Len(dd.active) - 1 :
           Pos(dd.active[i]) < Pos(dd.active[i + 1])

\* C27: while a file is parsed the active list is the shapes with a
\* subscriber in table order; the shapes tried against a line are the
\* first ones of that list, so no shape without a subscriber is matched or
\* parsed; and were a class registered after a file was parsed, the list
\* built for the next file would again be the shapes with a subscriber.
C27_ActiveList ==
    /\ pc = "lines" => ActiveOk(d)
    /\ (pc = "lines" /\ lineno >= 1) =>
         /\ Len(tried) <= Len(d.active)
         /\ tried = SubSeq(d.active, 1, Len(tried))
         /\ Range(parsed) \subseteq Range(tried)
         /\ \A p \in Range(tried) : Has(d.interests, p)
    /\ (pc = "files" /\ nfiles >= 1) =>
         \A class \in Classes :
             LET later == Interest(d, class)
             IN later.error = "" => ActiveOk(BuildActive(later))

C27_Witness ==
    /\ pc = "files"
    /\ nfiles = 1
    /\ lineno >= 1
    /\ parsed # << >>
    /\ Len(tried) >= 2
    /\ Len(d.active) < Len(patterns)
    /\ \E class \in Classes :
         /\ Interest(d, class).error = ""
         /\ Len(BuildActive(Interest(d, class)).active) > Len(d.active)

\* The lists that a step made longer.
Grown ==
    { x \in (DOMAIN rpcs') \X ListFields :
        ListLen(rpcs', x[1], x[2]) > ListLen(rpcs, x[1], x[2]) }

\* C28: a step of ingestion keeps every RPC record and every element of its
\* six lists where it was, and makes at most one list longer, by one
\* element at its end.
C28_AppendOnly ==
    [][ /\ \A id \in DOMAIN rpcs :
             /\ Has(rpcs', id)
             /\ \A f \in ListFields :
                  /\ Has(rpcs[id], f) /\ Has(rpcs'[id], f)
                  /\ Len(rpcs'[id][f]) >= Len(rpcs[id][f])
                  /\ SubSeq(rpcs'[id][f], 1, Len(rpcs[id][f])) = rpcs[id][f]
        /\ Cardinality(Grown) <= 1
        /\ \A x \in Grown :
             ListLen(rpcs', x[1], x[2]) = ListLen(rpcs, x[1], x[2]) + 1
      ]_vars

C28_Witness ==
    \E id \in DOMAIN rpcs :
        /\ Len(rpcs[id]["gro_data"]) = 2
        /\ rpcs[id]["gro_data"][1][1] < rpcs[id]["gro_data"][2][1]
        /\ Len(rpcs[id]["send_data"]) = 1
        /\ lastLine.shape = "recvmsg_done"

\* The step read a well-formed line of the shape.
ReadA(shape) ==
    /\ lineno' = lineno + 1
    /\ lastLine'.env = "ok" /\ lastLine'.tconv /\ lastLine'.conv
    /\ lastLine'.shape = shape

\* The table without the pending ip_xmit entries.
Cleared(table) ==
    [ id \in DOMAIN table |-> Put(table[id], "ip_xmits", EmptyDict) ]

\* C29: a send_data event without a pending ip_xmit entry for its id and
\* offset leaves the table as it is; a pending entry stays until a send_data
\* event for its id and offset takes it; no line ends the run; only a
\* send_data event changes a send_data list; and every analyzer prints the
\* same with the pending entries as without them.
C29_Unmatched ==
    [][ /\ lineno' = lineno + 1 => error' = "" /\ pc' = "lines"
        /\ (ReadA("send_data")
              /\ lastLine'.offset \notin
                   DOMAIN Pending(rpcs, lastLine'.id)) => rpcs' = rpcs
        /\ \A id \in DOMAIN rpcs :
             /\ \A off \in DOMAIN rpcs[id]["ip_xmits"] :
                    ~( /\ ReadA("send_data")
                       /\ lastLine'.id = id
                       /\ lastLine'.offset = off ) =>
                      /\ Has(rpcs', id)
                      /\ Has(rpcs'[id]["ip_xmits"], off)
             /\ ~ReadA("send_data") =>
                  rpcs'[id]["send_data"] = rpcs[id]["send_data"]
        /\ \A id \in DOMAIN rpcs' \ DOMAIN rpcs :
             rpcs'[id]["send_data"] = << >> \/ ReadA("send_data")
        /\ pc' = "output" =>
             \A class \in { "AnalyzeActivity", "AnalyzeNet",
                            "AnalyzeTimeline" } :
                 OutputOf(class, Cleared(rpcs'), order', traces', options') =
                   OutputOf(class, rpcs', order', traces', options')
      ]_vars

C29_Witness ==
    /\ pc = "done"
    /\ report # << >>
    /\ Has(rpcs, 2)
    /\ DOMAIN rpcs[2]["ip_xmits"] = { 0 }
    /\ Len(rpcs[2]["send_data"]) = 1
    /\ rpcs[2]["send_data"][1][2] = 500

\* C30: every record of the table has the name of a trace that was begun,
\* the six lists and the three maps, and a record with a non-empty gro_data
\* list has gro_core.
C30_WellFormed ==
    \A id \in DOMAIN rpcs :
        /\ ({ "name" } \cup ListFields \cup MapFields) \subseteq DOMAIN rpcs[id]
        /\ rpcs[id]["name"] \in DOMAIN traces
        /\ \A f \in ListFields : DOMAIN rpcs[id][f] = 1 .. Len(rpcs[id][f])
        /\ rpcs[id]["gro_data"] # << >> => Has(rpcs[id], "gro_core")

C30_Witness ==
    /\ lineno = 2
    /\ lastLine.shape = "gro_data"
    /\ Has(rpcs, lastLine.id)
    /\ Has(rpcs[lastLine.id], "recvmsg_done")
    /\ Len(rpcs[lastLine.id]["gro_data"]) = 1
    /\ rpcs[lastLine.id]["gro_core"] = lastLine.core

\* What the loop of AnalyzeActivity.output collects for a node.
NodeEvents(node) ==
    node_events(rpcs, order, 1, traces, node,
                [ in_events |-> << >>, in_bytes |-> 0, out_events |-> << >>,
                  out_bytes |-> 0 ])

\* The RPCs of a node with a non-empty list, in the order of the table.
IdsWith(node, list) ==
    SelectSeq(order,
              LAMBDA id : rpcs[id]["name"] = node /\ rpcs[id][list] # << >>)

\* The start and the end of the input message of an RPC, and of its output
\* message.
InStart(rpc) ==
    IF \E j \in 1 .. Len(rpc["gro_data"]) : rpc["gro_data"][j][2] = 0
    THEN rpc["gro_data"][1][1]
    ELSE traces[rpc["name"]]["first_time"]

InEnd(rpc) ==
    IF Has(rpc, "recvmsg_done") THEN rpc["recvmsg_done"]
    ELSE traces[rpc["name"]]["last_time"]

OutStart(rpc) ==
    IF Has(rpc, "sendmsg") THEN rpc["sendmsg"]
    ELSE traces[rpc["name"]]["first_time"]

LastPacket(rpc) == rpc["send_data"][Len(rpc["send_data"])]

OutEnd(rpc) ==
    IF Has(rpc, "out_length")
         /\ LastPacket(rpc)[2] + LastPacket(rpc)[3] # rpc["out_length"]
    THEN traces[rpc["name"]]["last_time"]
    ELSE LastPacket(rpc)[1]

\* The markers of a list are a start and an end for each of the RPCs, in
\* their order.
MarkersAre(marks, ids, start(_), end(_)) ==
    /\ Len(marks) = 2 * Len(ids)
    /\ \A k \in 1 .. Len(ids) :
         /\ marks[2 * k - 1] = << start(rpcs[ids[k]]), "start" >>
         /\ marks[2 * k] = << end(rpcs[ids[k]]), "end" >>
    /\ Cardinality({ k \in 1 .. Len(marks) : marks[k][2] = "start" })
         = Cardinality({ k \in 1 .. Len(marks) : marks[k][2] = "end" })

\* C31: when the activity analyzer makes its report, the incoming list of
\* every node has one start and one end marker for each of the node's RPCs
\* with GRO data (start: the time of the first GRO packet when some GRO
\* packet has offset 0, else the first time of the trace; end: recvmsg_done,
\* else the last time of the trace), and the outgoing list one start and one
\* end for each RPC with send_data (start: sendmsg, else the first time of
\* the trace; end: the time of the last packet, or the last time of the
\* trace when out_length is known and the packet does not end there).
C31_Markers ==
    pc \in { "output", "done" } =>
        \A node \in DOMAIN traces :
            /\ MarkersAre(NodeEvents(node).in_events,
                          IdsWith(node, "gro_data"), InStart, InEnd)
            /\ MarkersAre(NodeEvents(node).out_events,
                          IdsWith(node, "send_data"), OutStart, OutEnd)

C31_Witness ==
    /\ pc = "output"
    /\ Has(rpcs, 2) /\ Has(rpcs, 3)
    /\ Len(rpcs[3]["gro_data"]) = 2
    /\ rpcs[3]["gro_data"][1][2] = 500
    /\ rpcs[3]["gro_data"][2][2] = 0
    /\ ~Has(rpcs[3], "recvmsg_done")
    /\ rpcs[2]["send_data"] # << >>
    /\ Has(rpcs[2], "out_length")
    /\ rpcs[2]["out_length"] = 1000
    /\ NodeEvents("node1").in_events = << << 1, "start" >>, << 7, "end" >> >>
    /\ NodeEvents("node1").out_events = << << 0, "start" >>, << 7, "end" >> >>

\* The smallest and the largest offset of the GRO packets of an RPC.
MinOffset(rpc) ==
    CHOOSE o \in { p[2] : p \in Range(rpc["gro_data"]) } :
        \A p \in Range(rpc["gro_data"]) : o <= p[2]

MaxOffset(rpc) ==
    CHOOSE o \in { p[2] : p \in Range(rpc["gro_data"]) } :
        \A p \in Range(rpc["gro_data"]) : o >= p[2]

\* C32: when the activity analyzer makes its report, the bytes it counts for
\* an incoming message with GRO packets are the declared length of the
\* message minus the smallest GRO offset if the message has recvmsg_done, and
\* largest offset + packet size - smallest offset only if it has not.
C32_InBytes ==
    pc \in { "output", "done" } =>
        \A id \in DOMAIN rpcs :
            rpcs[id]["gro_data"] # << >> =>
                IF Has(rpcs[id], "recvmsg_done")
                THEN Has(rpcs[id], "in_length") =>
                        in_bytes(rpcs[id], get_packet_size(rpcs, order))
                          = rpcs[id]["in_length"] - MinOffset(rpcs[id])
                ELSE in_bytes(rpcs[id], get_packet_size(rpcs, order))
                       = MaxOffset(rpcs[id])
                           + get_packet_size(rpcs, order)
                           - MinOffset(rpcs[id])

\* The accumulators of the copies from user space, and of the copies to
\* user space.
InTotals(copy) ==
    << copy.total_in_time, copy.small_in_times, copy.large_in_data,
       copy.large_in_time, copy.large_in_count >>

OutTotals(copy) ==
    << copy.total_out_time, copy.small_out_times, copy.large_out_data,
       copy.large_out_time, copy.large_out_count >>

\* The step read a line of the shape right after another line of the shape
\* on the same core.
ReadAgain(shape) ==
    /\ ReadA(shape)
    /\ Has(traces[trace], "copy")
    /\ lineno >= 1
    /\ lastLine.env = "ok" /\ lastLine.tconv /\ lastLine.conv
    /\ lastLine.shape = shape
    /\ lastLine.core = lastLine'.core

\* C33: a copy_in_done (copy_out_done) event that follows another one on
\* the same core with no start in between adds nothing to the total, small
\* and large accumulators of its direction.
C33_OneToOne ==
    [][/\ ReadAgain("copy_in_done") =>
            InTotals(traces'[trace]["copy"]) = InTotals(traces[trace]["copy"])
       /\ ReadAgain("copy_out_done") =>
            OutTotals(traces'[trace]["copy"])
              = OutTotals(traces[trace]["copy"])]_vars

\* C34: a free_skbs event on a core with a recorded end of a copy to user
\* space adds the time since that end to skb_free_time and, if and only if
\* the size recorded for the core is at least 5000, to
\* large_out_time_with_skbs; on a core without a recorded end it changes
\* nothing; every core with a recorded end has a recorded size; and
\* large_out_time_with_skbs is never below large_out_time.
C34_Release ==
    [][/\ ReadA("free_skbs") /\ Has(traces[trace], "copy") =>
            LET old == traces[trace]["copy"]
                new == traces'[trace]["copy"]
                core == lastLine'.core
                delta == lastLine'.time - old.out_end[core]
            IN IF Has(old.out_end, core)
               THEN /\ new.skb_free_time = old.skb_free_time + delta
                    /\ new.large_out_time_with_skbs
                         = old.large_out_time_with_skbs
                             + (IF old.out_size[core] >= LargeBytes
                                THEN delta ELSE 0)
               ELSE new = old
       /\ \A node \in DOMAIN traces' :
            Has(traces'[node], "copy") =>
            LET copy == traces'[node]["copy"]
            IN /\ DOMAIN copy.out_end \subseteq DOMAIN copy.out_size
               /\ copy.large_out_time_with_skbs >= copy.large_out_time]_vars

C34_Witness ==
    /\ pc = "lines"
    /\ lastLine.shape = "free_skbs"
    /\ Has(traces[trace], "copy")
    /\ Has(traces[trace]["copy"].out_end, lastLine.core)
    /\ traces[trace]["copy"].out_size[lastLine.core] < LargeBytes
    /\ traces[trace]["copy"].skb_free_time > 0
    /\ traces[trace]["copy"].large_out_time_with_skbs = 0

\* What collect_events returns for the table.
Collected == collect_events(rpcs, order, options)

\* The events collect_events appends for a sender and its receiver.
PairEvents(id) ==
    collect_pair(rpcs[id], rpcs[Counterpart(id)],
                 get_packet_size(rpcs, order), options).out

\* The bytes of the events of a type.
RECURSIVE Bytes(_, _)
Bytes(evs, type) ==
    IF evs = << >> THEN 0
    ELSE Bytes(Tail(evs), type)
           + (IF Head(evs)[2] = type THEN Head(evs)[3] ELSE 0)

\* The bytes sent and not yet received after the events.
Backlog(evs) == Bytes(evs, "xmit") - Bytes(evs, "recv")

\* The events of a core among the first k, and those before a time.
FirstOn(evs, core, k) ==
    SelectSeq(SubSeq(evs, 1, k), LAMBDA e : e[4] = core)

BeforeOn(evs, core, time) ==
    SelectSeq(evs, LAMBDA e : e[4] = core /\ e[1] < time)

\* C35: every receive event that collect_events makes for a sender and its
\* receiver belongs to a GRO sample of the receiver and has the delay from
\* a packet of the sender whose bytes, offset to offset + length, hold the
\* offset of the sample.
C35_Pairing ==
    pc = "output" =>
        \A id \in Senders :
            \A e \in Range(PairEvents(id)) :
                e[2] = "recv" =>
                    \E g \in Range(rpcs[Counterpart(id)]["gro_data"]),
                       p \in Range(rpcs[id]["send_data"]) :
                        /\ g[1] = e[1]
                        /\ e[5] = g[1] - p[1]
                        /\ p[2] <= g[2]
                        /\ g[2] < p[2] + p[3]

\* C36: for every sender and its receiver the transmit events of
\* collect_events have together the bytes of the receive events, and after
\* all the events of a receiver the running backlog of every core is zero.
C36_Conservation ==
    pc = "output" =>
        /\ \A id \in Senders :
             Bytes(PairEvents(id), "xmit") = Bytes(PairEvents(id), "recv")
        /\ \A name \in DOMAIN Collected.receivers :
             \A core \in { e[4] : e \in Range(Collected.receivers[name]) } :
                summarize_node(Collected.receivers[name], 1,
                               EmptyDict)[core]["cur_backlog"] = 0

\* C37: every receiver in the map of collect_events has a list of events
\* that is not empty and is in the order of the times, every core in it has
\* a receive event, and no later pass fails on an empty list.
C37_Shape ==
    /\ pc = "output" =>
         \A name \in DOMAIN Collected.receivers :
            LET evs == Collected.receivers[name]
            IN /\ evs # << >>
               /\ \A i \in 1 .. Len(evs) - 1 : evs[i][1] <= evs[i + 1][1]
               /\ \A e \in Range(evs) :
                    \E r \in Range(evs) : r[2] = "recv" /\ r[4] = e[4]
    /\ error # "IndexError"

\* The largest running backlog of a core, which is zero before the first
\* event.
Peak(evs, core) ==
    CHOOSE m \in { Backlog(FirstOn(evs, core, k)) : k \in 0 .. Len(evs) } :
        \A k \in 0 .. Len(evs) : Backlog(FirstOn(evs, core, k)) <= m

\* The time of the first event rounded down to a multiple of the interval.
Start(evs) == (evs[1][1] \div interval_length) * interval_length

\* The intervals of generate_backlog_data agree with the running backlog.
IntervalsAgree(evs, b) ==
    /\ DOMAIN b.backlogs = { e[4] : e \in Range(evs) }
    /\ \A core \in DOMAIN b.backlogs :
         /\ Len(b.backlogs[core]) = b.cur_interval + 1
         /\ \A i \in 0 .. b.cur_interval :
              b.backlogs[core][i + 1]
                = Backlog(BeforeOn(evs, core,
                                   Start(evs) + (i + 1) * interval_length))

\* C38: over the events of a receiver, generate_backlog_data (intervals of
\* 20) keeps a list of current interval + 1 values for every core, the value
\* of interval i being the bytes sent minus the bytes received on the core
\* in all events before the end of the interval, and the max_backlog of
\* summarize_events is the largest running backlog of the core.
C38_PassesAgree ==
    /\ interval_length = 20
    /\ pc = "output" =>
         \A name \in DOMAIN Collected.receivers :
            LET evs == Collected.receivers[name]
            IN evs # << >> =>
                 /\ IntervalsAgree(evs, backlogs_of(evs))
                 /\ \A core \in { e[4] : e \in Range(evs) } :
                      summarize_node(evs, 1, EmptyDict)[core]["max_backlog"]
                        = Peak(evs, core)

C38_Witness ==
    /\ pc = "output"
    /\ Has(Collected.receivers, "node2")
    /\ Collected.receivers["node2"] # << >>
    /\ LET evs == Collected.receivers["node2"]
           b == backlogs_of(evs)
       IN /\ DOMAIN b.backlogs = { 0, 1 }
          /\ b.cur_interval >= 2
          /\ \E i \in 1 .. b.cur_interval :
               /\ b.backlogs[0][i] # 0
               /\ b.backlogs[0][i + 1] = b.backlogs[0][i]
               /\ \A e \in Range(evs) :
                    \/ e[1] < Start(evs) + i * interval_length
                    \/ e[1] >= Start(evs) + (i + 1) * interval_length

\* The offsets of the softirq_data packets of an RPC, sorted, and the gaps
\* between them.
Offsets(rpc) ==
    LET pkts == SortByKey(rpc["softirq_data"], 2)
    IN [ j \in DOMAIN pkts |-> pkts[j][2] ]

Gaps(rpc) ==
    [ j \in 1 .. Len(Offsets(rpc)) - 1 |->
        Offsets(rpc)[j + 1] - Offsets(rpc)[j] ]

\* The RPCs get_packet_size learns from: n softirq_data packets, the first
\* at offset 0, and a receive that completed.
Tells(n) ==
    { id \in DOMAIN rpcs :
        /\ Len(rpcs[id]["softirq_data"]) = n
        /\ n >= 2
        /\ Offsets(rpcs[id])[1] = 0
        /\ Has(rpcs[id], "recvmsg_done") }

\* An RPC has a gap twice, and the size is such a gap.
Repeated(id, size) ==
    \E j, k \in DOMAIN Gaps(rpcs[id]) :
        j # k /\ Gaps(rpcs[id])[j] = size /\ Gaps(rpcs[id])[k] = size

\* C39: when the trace is read, get_packet_size returns for an RPC with a
\* completed receive and four softirq_data packets from offset 0, two of
\* whose gaps are equal, a gap that the RPC has at least twice; with two or
\* three packets the offset of the second; and 100000 when no RPC has two
\* packets or more.
C39_PacketSize ==
    pc = "output" =>
        /\ \A id \in Tells(4) :
             (\E size \in Range(Gaps(rpcs[id])) : Repeated(id, size))
               => Repeated(id, get_packet_size(rpcs, order))
        /\ \A id \in Tells(2) \cup Tells(3) :
             get_packet_size(rpcs, order) = Offsets(rpcs[id])[2]
        /\ Tells(2) \cup Tells(3) \cup Tells(4) = {}
             => get_packet_size(rpcs, order) = DefaultPacketSize

====
